---- MODULE Spec2Model ----
(***************************************************************************)
(* A model of pr-mcp-server: conventional PR title inference               *)
(* (generate-pr-title.tool.ts) and the create/update/reopen orchestration  *)
(* of executeCreatePR and executeCreatePRComplete against a remote         *)
(* code-hosting API.                                                       *)
(*                                                                         *)
(* Strings are sequences of one-character strings, so that slicing,        *)
(* trimming, prefix tests and lengths are computed as the code computes    *)
(* them.  An absent optional string is the empty sequence (the code tests  *)
(* optional strings with || and !, which treat "" and undefined alike);    *)
(* an absent optional number is 0 for the same reason.                     *)
(***************************************************************************)
EXTENDS Integers, Sequences, FiniteSets, TLC

VARIABLES
    commits,      \* the Analyzer's commit messages for base..current, newest first
    filesList,    \* the Analyzer's changed file paths, in emitted order
    maxLength,    \* generate_pr_title: the maxLength argument (0 = absent)
    titlePc,      \* generate_pr_title: "idle" | "done"
    rendered,     \* generate_pr_title: the returned title
    prs,          \* the remote's pull requests, in the order pulls.list returns them
    inv,          \* the createOrUpdatePR invocation in progress
    calls,        \* repository queries and remote API calls issued by that invocation
    history,      \* outcomes of the finished invocations, oldest first
    inferred,     \* title inference: the type, scope and subject inferred, if any
    resolver,     \* username resolution: an author's email and name, and the username
    suggestion,   \* suggestReviewers: the repository it reads and what it returned
    detection,    \* detectMainBranch: the repository it reads and the branch returned
    gif,          \* GIF selection: the clock, the rate-limit mark and the Giphy calls
    review,       \* review tool: the analysed changes and the review produced
    analysis,     \* analyzeBranch: the commits between the branches and the result
    splice,       \* the review splice: the description, the review text and the final body
    racers,       \* createOrUpdatePR invocations that overlap in time, each at its own step
    overlap       \* GIF requests that overlap in time: the clock, the flag, the requests in flight

vars == <<commits, filesList, maxLength, titlePc, rendered,
          prs, inv, calls, history, inferred, resolver,
          suggestion, detection, gif, review, analysis, splice, racers, overlap>>

\* The state of the operations other than title rendering and createOrUpdatePR
toolVars == <<inferred, resolver, suggestion, detection, gif, review, analysis, splice, racers, overlap>>

IdleSuggestion ==
    [pc |-> "idle", analyzer |-> "ok", logs |-> <<>>, limit |-> 0, result |-> <<>>]

IdleDetection ==
    [ pc |-> "idle", env |-> <<>>, originHead |-> <<>>, branchLocal |-> "ok",
      localBranches |-> {}, remoteBranches |-> {}, result |-> <<>> ]

\* The module state of gif-selector.ts at load time; minutes on the clock
IdleGif ==
    [ pc |-> "idle", now |-> 0, disabled |-> FALSE,
      isRateLimited |-> FALSE, rateLimitResetTime |-> 0,
      selections |-> 0, calls |-> 0, limitedAt |-> -1, returned |-> "none" ]

IdleReview ==
    [ pc |-> "idle", files |-> {}, fullDiff |-> {}, growth |-> 0,
      criticalIssues |-> <<>>, output |-> <<>> ]

IdleAnalysis ==
    [ pc |-> "idle", git |-> "ok", log |-> <<>>, result |-> <<>>, error |-> <<>> ]

IdleSplice ==
    [ pc |-> "idle", supplied |-> FALSE, description |-> <<>>, aiReviewText |-> <<>>,
      finalDescription |-> <<>> ]

IdleRacers == <<>>

IdleOverlap ==
    [ now |-> 0, isRateLimited |-> FALSE, rateLimitResetTime |-> 0,
      inFlight |-> 0, calls |-> 0, limitedAt |-> -1 ]

\* None of those operations has run
ToolsIdle ==
    /\ inferred = <<>>
    /\ resolver = [pc |-> "idle", email |-> <<>>, name |-> <<>>, username |-> <<>>]
    /\ suggestion = IdleSuggestion
    /\ detection = IdleDetection
    /\ gif = IdleGif
    /\ review = IdleReview
    /\ analysis = IdleAnalysis
    /\ splice = IdleSplice
    /\ racers = IdleRacers
    /\ overlap = IdleOverlap

titleVars == <<commits, filesList, maxLength, titlePc, rendered>>
prVars == <<prs, inv, calls, history>>

(***************************************************************************)
(* Bounds of the model.                                                    *)
(***************************************************************************)
MaxSubjectLen == 3
MaxTitleLength == 12
MaxInvocations == 2
MaxReviewers == 2
MaxAccepted == 2
MaxFiles == 3
MaxCommits == 3
MaxChangedFiles == 2
MaxClock == 64
MaxSelections == 3
MaxFragments == 3
MaxRacers == 3
MaxInFlight == 2

(***************************************************************************)
(* Characters and JavaScript string primitives.                            *)
(***************************************************************************)
LowerLetters ==
    <<"a","b","c","d","e","f","g","h","i","j","k","l","m",
      "n","o","p","q","r","s","t","u","v","w","x","y","z">>

UpperLetters ==
    <<"A","B","C","D","E","F","G","H","I","J","K","L","M",
      "N","O","P","Q","R","S","T","U","V","W","X","Y","Z">>

Digits == {"0","1","2","3","4","5","6","7","8","9"}

Range(s) == {s[i] : i \in DOMAIN s}

IsLetter(c) == c \in Range(LowerLetters) \cup Range(UpperLetters)

\* \s of a JavaScript regular expression, and what trim() removes
IsSpace(c) == c \in {" ", "\t", "\n"}

Min(a, b) == IF a < b THEN a ELSE b
Max(a, b) == IF a > b THEN a ELSE b

toLowerCaseChar(c) ==
    IF c \in Range(UpperLetters)
    THEN LowerLetters[CHOOSE i \in DOMAIN UpperLetters : UpperLetters[i] = c]
    ELSE c

toLowerCase(s) == [i \in 1..Len(s) |-> toLowerCaseChar(s[i])]

startsWith(s, p) == Len(s) >= Len(p) /\ SubSeq(s, 1, Len(p)) = p

\* String.prototype.includes, and RegExp.test for a literal pattern
includes(s, p) ==
    \E i \in 0..(Len(s) - Len(p)) : SubSeq(s, i + 1, i + Len(p)) = p

\* s.slice(0, n) for n >= 0
sliceTo(s, n) == SubSeq(s, 1, Min(n, Len(s)))

\* s.slice(n) for n >= 0
sliceFrom(s, n) == SubSeq(s, n + 1, Len(s))

RECURSIVE trimEnd(_)
trimEnd(s) ==
    IF s # <<>> /\ IsSpace(s[Len(s)]) THEN trimEnd(SubSeq(s, 1, Len(s) - 1)) ELSE s

RECURSIVE trimStart(_)
trimStart(s) ==
    IF s # <<>> /\ IsSpace(s[1]) THEN trimStart(Tail(s)) ELSE s

trim(s) == trimEnd(trimStart(s))

\* s.split("/"): the segments between slashes (always at least one)
RECURSIVE splitSlash(_)
splitSlash(s) ==
    IF \E i \in DOMAIN s : s[i] = "/"
    THEN LET k == CHOOSE i \in DOMAIN s :
                      s[i] = "/" /\ \A j \in 1..(i - 1) : s[j] # "/"
         IN  <<SubSeq(s, 1, k - 1)>> \o splitSlash(sliceFrom(s, k))
    ELSE <<s>>

(***************************************************************************)
(* Title/Scope inference (generate-pr-title.tool.ts).                      *)
(***************************************************************************)
Feat == <<"f","e","a","t">>
Fix == <<"f","i","x">>
Docs == <<"d","o","c","s">>
Style == <<"s","t","y","l","e">>
Refactor == <<"r","e","f","a","c","t","o","r">>
Perf == <<"p","e","r","f">>
Test == <<"t","e","s","t">>
Build == <<"b","u","i","l","d">>
Ci == <<"c","i">>
Chore == <<"c","h","o","r","e">>
Feature == <<"f","e","a","t","u","r","e">>
Bug == <<"b","u","g">>
Update == <<"u","p","d","a","t","e">>
Ellipsis == <<".", ".", ".">>

CONVENTIONAL_TYPES ==
    <<Feat, Fix, Docs, Style, Refactor, Perf, Test, Build, Ci, Chore>>

MONOREPO_ROOTS ==
    { <<"p","a","c","k","a","g","e","s">>, <<"a","p","p","s">>, <<"l","i","b","s">>,
      <<"m","o","d","u","l","e","s">>, <<"s","e","r","v","i","c","e","s">> }

\* replace(/[^a-zA-Z0-9_-]/g, "-")
sanitize(s) ==
    [i \in 1..Len(s) |->
        IF IsLetter(s[i]) \/ s[i] \in Digits \/ s[i] \in {"_", "-"} THEN s[i] ELSE "-"]

\* Mutant: the first level is the candidate under a monorepo root too
scopeOfFileFirstLevel(file) ==
    LET parts == splitSlash(file)
        first == sanitize(toLowerCase(parts[1]))
    IN  IF Len(parts) > 1 /\ first # <<>> /\ first # <<"s","r","c">>
           /\ first # <<"l","i","b">>
        THEN first
        ELSE <<>>

\* The scope one path yields, <<>> when the loop moves on to the next path
scopeOfFile(file) ==
    LET parts == splitSlash(file)
        firstLevel == toLowerCase(parts[1])
        second == IF Len(parts) > 2 THEN toLowerCase(sanitize(parts[2])) ELSE <<>>
        first == sanitize(firstLevel)
    IN  IF Len(parts) > 1
        THEN IF firstLevel \in MONOREPO_ROOTS /\ Len(parts) > 2 /\ second # <<>>
             THEN second
             ELSE IF first # <<>> /\ first # <<"s","r","c">> /\ first # <<"l","i","b">>
                  THEN first
                  ELSE <<>>
        ELSE <<>>

\* Mutant: the scan stops at the first path instead of moving on after a rejection
inferScopeFromFilesFirstOnly(files) ==
    IF files = <<>> THEN <<>> ELSE scopeOfFile(Head(files))

RECURSIVE inferScopeFromFiles(_)
inferScopeFromFiles(files) ==
    IF files = <<>> THEN <<>>
    ELSE IF scopeOfFile(Head(files)) # <<>> THEN scopeOfFile(Head(files))
    ELSE inferScopeFromFiles(Tail(files))

\* The type the inner loop over CONVENTIONAL_TYPES returns for one message, <<>> if none
typeOfMessage(m) ==
    LET lower == toLowerCase(m)
        Hit(t) == \/ startsWith(lower, t \o <<":">>)
                  \/ startsWith(lower, t \o <<"(">>)
                  \/ (t = Feat /\ startsWith(lower, Feature))
        hits == {i \in DOMAIN CONVENTIONAL_TYPES : Hit(CONVENTIONAL_TYPES[i])}
    IN  IF hits = {} THEN <<>>
        ELSE CONVENTIONAL_TYPES[CHOOSE i \in hits : \A j \in hits : i <= j]

RECURSIVE firstPrefixedType(_)
firstPrefixedType(messages) ==
    IF messages = <<>> THEN <<>>
    ELSE IF typeOfMessage(Head(messages)) # <<>> THEN typeOfMessage(Head(messages))
    ELSE firstPrefixedType(Tail(messages))

\* messages.some(m => /a|b/i.test(m))
someMatches(messages, words) ==
    \E i \in DOMAIN messages : \E w \in words : includes(toLowerCase(messages[i]), w)

\* Mutant: the keyword pass tries feat|feature before fix|bug
inferTypeFromCommitsFeatFirst(messages) ==
    IF firstPrefixedType(messages) # <<>> THEN firstPrefixedType(messages)
    ELSE IF someMatches(messages, {Feat, Feature}) THEN Feat
    ELSE IF someMatches(messages, {Fix, Bug}) THEN Fix
    ELSE IF someMatches(messages, {Refactor}) THEN Refactor
    ELSE IF someMatches(messages, {Test}) THEN Test
    ELSE Chore

inferTypeFromCommits(messages) ==
    IF firstPrefixedType(messages) # <<>> THEN firstPrefixedType(messages)
    ELSE IF someMatches(messages, {Fix, Bug}) THEN Fix
    ELSE IF someMatches(messages, {Feat, Feature}) THEN Feat
    ELSE IF someMatches(messages, {Refactor}) THEN Refactor
    ELSE IF someMatches(messages, {Test}) THEN Test
    ELSE Chore

\* Length of the match of /^[a-z]+(?:\([^)]*\))?:\s*/i at the start of s, 0 if none
conventionalPrefixLen(s) ==
    LET letters == CHOOSE n \in 0..Len(s) :
                       /\ \A i \in 1..n : IsLetter(s[i])
                       /\ (n < Len(s) => ~IsLetter(s[n + 1]))
        at(i) == IF i <= Len(s) THEN s[i] ELSE ""
        closes == {k \in (letters + 2)..Len(s) : s[k] = ")"}
        close == IF closes = {} THEN 0 ELSE CHOOSE k \in closes : \A j \in closes : k <= j
        colon == IF at(letters + 1) = ":" THEN letters + 1
                 ELSE IF at(letters + 1) = "(" /\ close # 0 /\ at(close + 1) = ":"
                      THEN close + 1
                      ELSE 0
        spaces == CHOOSE n \in 0..(Len(s) - colon) :
                      /\ \A i \in 1..n : IsSpace(s[colon + i])
                      /\ (colon + n < Len(s) => ~IsSpace(s[colon + n + 1]))
    IN  IF letters = 0 \/ colon = 0 THEN 0 ELSE colon + spaces

inferSubjectFromCommits(messages) ==
    LET first == IF messages # <<>> /\ messages[1] # <<>> THEN messages[1] ELSE Update
        cleaned == trim(sliceFrom(first, conventionalPrefixLen(first)))
    IN  IF Len(cleaned) > 0 THEN cleaned ELSE Update

\* `type(scope): subject` or `type: subject`
renderBase(type, scope, subject) ==
    IF scope # <<>>
    THEN type \o <<"(">> \o scope \o <<")", ":", " ">> \o subject
    ELSE type \o <<":", " ">> \o subject

\* Mutant: the ellipsis is two periods long
truncateTitleShortEllipsis(base, max) ==
    trimEnd(sliceTo(base, Max(3, max - 3))) \o <<".", ".">>

\* The last two statements of executeGenerateTitle: keep max(3, maxLength - 3)
\* characters, drop trailing whitespace, append "..."
truncateTitle(base, max) ==
    LET allowed == Max(3, max - 3)
    IN  trimEnd(sliceTo(base, allowed)) \o Ellipsis

executeGenerateTitle(messages, files, max) ==
    LET base == renderBase(inferTypeFromCommits(messages),
                           inferScopeFromFiles(files),
                           inferSubjectFromCommits(messages))
    IN  IF max = 0 \/ Len(base) <= max THEN base ELSE truncateTitle(base, max)

\* create-pr's fallback title: the same algorithm under another name
executeGenerateTitleSimple(messages, files, max) ==
    executeGenerateTitle(messages, files, max)

(***************************************************************************)
(* The remote hosting API and the working repository, as the orchestrator  *)
(* sees them.  One working branch and one base branch; the remote may also *)
(* hold pull requests of another branch or against another base.           *)
(***************************************************************************)
None == <<>>
Some(x) == <<x>>

CurrentBranch == "feature/login"
BaseBranch == "main"

OldTitle == <<"o","l","d">>
SuppliedTitle == <<"M","y"," ","P","R">>

PullRequest(number, head, base, state) ==
    [ number |-> number, head |-> head, base |-> base, state |-> state,
      title |-> OldTitle, body |-> "old" ]

\* What the remote holds before the first invocation, newest first
InitialRemotes ==
    { <<>>,
      << PullRequest(1, CurrentBranch, BaseBranch, "open") >>,
      << PullRequest(1, CurrentBranch, BaseBranch, "closed") >>,
      << PullRequest(2, CurrentBranch, BaseBranch, "open"),
         PullRequest(1, CurrentBranch, BaseBranch, "closed") >>,
      << PullRequest(2, "other", BaseBranch, "open"),
         PullRequest(1, CurrentBranch, "dev", "closed") >>,
      << PullRequest(2, "other", BaseBranch, "closed"),
         PullRequest(1, CurrentBranch, BaseBranch, "closed") >> }

\* Mutant: the head filter never matches (the owner prefix left out)
pullsListNoMatch(remote, head, base, state) == <<>>

\* octokit.rest.pulls.list({head, base, state}): the matching pull requests in
\* the remote's order; state is "all", "open" or "closed"
pullsList(remote, head, base, state) ==
    SelectSeq(remote, LAMBDA p : /\ p.head = head
                                 /\ p.base = base
                                 /\ (state = "all" \/ p.state = state))

\* Mutant: state is left to the API's default, which lists open pull requests only
existingPRsOpenOnly(remote) == pullsList(remote, CurrentBranch, BaseBranch, "open")

\* The lookup of executeCreatePR / executeCreatePRComplete
existingPRsOf(remote) == pullsList(remote, CurrentBranch, BaseBranch, "all")

nextNumber(remote) ==
    1 + Len(remote)

\* octokit.rest.pulls.create: the new pull request, which the remote lists first
createdPR(remote, title, body) ==
    [ number |-> nextNumber(remote), head |-> CurrentBranch, base |-> BaseBranch,
      state |-> "open", title |-> title, body |-> body ]

\* octokit.rest.pulls.update: title and body always, state only when given
updatedPR(p, title, body, state) ==
    [ p EXCEPT !.title = title, !.body = body,
               !.state = IF state = "unset" THEN @ ELSE state ]

\* Mutant: an update sends the state the pull request was found in
mutationForKeepingState(existingPRs, title, body) ==
    IF Len(existingPRs) > 0
    THEN [ op |-> "update", number |-> existingPRs[1].number, title |-> title,
           body |-> body, state |-> existingPRs[1].state,
           action |-> IF existingPRs[1].state = "closed" THEN "reopened" ELSE "updated" ]
    ELSE [ op |-> "create", number |-> 0, title |-> title,
           body |-> body, state |-> "unset", action |-> "created" ]

\* The mutating request the transition step sends for the looked-up list
mutationFor(existingPRs, title, body) ==
    IF Len(existingPRs) > 0
    THEN IF existingPRs[1].state = "closed"
         THEN [ op |-> "update", number |-> existingPRs[1].number, title |-> title,
                body |-> body, state |-> "open", action |-> "reopened" ]
         ELSE [ op |-> "update", number |-> existingPRs[1].number, title |-> title,
                body |-> body, state |-> "unset", action |-> "updated" ]
    ELSE [ op |-> "create", number |-> 0, title |-> title,
           body |-> body, state |-> "unset", action |-> "created" ]

NoMutation ==
    [ op |-> "none", number |-> 0, title |-> <<>>, body |-> "none",
      state |-> "unset", action |-> "none" ]

\* The remote after it has carried out a mutating request
remoteAfter(remote, m) ==
    IF m.op = "create"
    THEN <<createdPR(remote, m.title, m.body)>> \o remote
    ELSE [ i \in DOMAIN remote |->
             IF remote[i].number = m.number
             THEN updatedPR(remote[i], m.title, m.body, m.state)
             ELSE remote[i] ]

\* The pull request the mutating request's response carries
responseOf(remote, m) ==
    IF m.op = "create"
    THEN createdPR(remote, m.title, m.body)
    ELSE LET i == CHOOSE j \in DOMAIN remote : remote[j].number = m.number
         IN  updatedPR(remote[i], m.title, m.body, m.state)

(***************************************************************************)
(* Reviewer assignment: logins are strings as titles are.                  *)
(***************************************************************************)
Alice == <<"a","l","i","c","e">>
AliceCapital == <<"A","l","i","c","e">>
Bob == <<"b","o","b">>
Carol == <<"c","a","r","o","l">>

\* The authenticated caller, and the logins the resolver and the remote may name
CurrentUser == Alice
SuggestedLogins == {AliceCapital, Bob, Carol}
RemoteLogins == {Alice, Bob, Carol}

\* The sequences without repetition of 1..n (or 0..n) elements of S
RECURSIVE ListsUpTo(_, _)
ListsUpTo(S, n) ==
    IF n = 0 THEN {<<>>}
    ELSE LET shorter == ListsUpTo(S, n - 1)
         IN  shorter \cup {Append(l, x) : l \in shorter, x \in S}

Injective(l) == \A i, j \in DOMAIN l : l[i] = l[j] => i = j

Suggestions == {l \in ListsUpTo(SuggestedLogins, MaxReviewers) : l # <<>> /\ Injective(l)}
Responses == {l \in ListsUpTo(RemoteLogins, MaxAccepted) : Injective(l)}

\* Mutant: the caller is compared without lower-casing
filterAuthorCaseSensitive(allSuggested, currentUser) ==
    SelectSeq(allSuggested, LAMBDA a : a # currentUser)

\* allSuggested.filter(author => author.toLowerCase() !== currentUser.toLowerCase())
filterAuthor(allSuggested, currentUser) ==
    SelectSeq(allSuggested, LAMBDA a : toLowerCase(a) # toLowerCase(currentUser))

Note(kind, logins) == [kind |-> kind, logins |-> logins]

\* The branches after pulls.requestReviewers has answered: what the code keeps of
\* the response's requested_reviewers, and the note it records
afterResponse(reviewerLogins, actuallyAdded) ==
    IF Len(actuallyAdded) = 0
    THEN [ reviewersAdded |-> <<>>,
           reviewerError |-> Some(Note("none accepted", reviewerLogins)) ]
    ELSE IF Len(actuallyAdded) < Len(reviewerLogins)
    THEN [ reviewersAdded |-> actuallyAdded,
           reviewerError |-> Some(Note("partially successful",
                  SelectSeq(reviewerLogins, LAMBDA r : r \notin Range(actuallyAdded)))) ]
    ELSE [ reviewersAdded |-> actuallyAdded, reviewerError |-> None ]

\* Mutant: a failed reviewer assignment is reported in the state field
resultOfDegraded(pr, action, reviewersAdded, reviewerError) ==
    [ url |-> <<"pull", pr.number>>,
      number |-> pr.number,
      title |-> pr.title,
      state |-> IF reviewerError # None THEN "degraded" ELSE pr.state,
      action |-> action,
      reviewers |-> IF Len(reviewersAdded) > 0 THEN Some(reviewersAdded) ELSE None,
      reviewersAdded |-> Len(reviewersAdded),
      reviewerNote |-> reviewerError ]

\* The object both tools return
resultOf(pr, action, reviewersAdded, reviewerError) ==
    [ url |-> <<"pull", pr.number>>,
      number |-> pr.number,
      title |-> pr.title,
      state |-> pr.state,
      action |-> action,
      reviewers |-> IF Len(reviewersAdded) > 0 THEN Some(reviewersAdded) ELSE None,
      reviewersAdded |-> Len(reviewersAdded),
      reviewerNote |->
          IF reviewerError # None THEN reviewerError
          ELSE IF Len(reviewersAdded) > 0 THEN None
          ELSE Some(Note("No reviewers were automatically added", <<>>)) ]

(***************************************************************************)
(* createOrUpdatePR: executeCreatePR ("create_pr") and                     *)
(* executeCreatePRComplete ("create_pr_complete"), one awaited step per    *)
(* action.  Invocations run one after another against the same remote.     *)
(***************************************************************************)
Tools == {"create_pr", "create_pr_complete"}

\* The order of the awaited steps of each tool
StepsOf(tool) ==
    IF tool = "create_pr"
    THEN <<"repository", "verifyBranch", "title", "description",
           "list", "transition", "reviewers">>
    ELSE <<"repository", "analyze", "title", "description", "verifyBranch",
           "list", "transition", "reviewers">>

after(tool, pc) ==
    LET steps == StepsOf(tool)
        i == CHOOSE j \in DOMAIN steps : steps[j] = pc
    IN  steps[i + 1]

IdleInv ==
    [ pc |-> "idle", tool |-> "none", hasCredential |-> FALSE,
      existedBefore |-> FALSE, remoteBranch |-> "unchecked",
      title |-> <<>>, body |-> "none", existing |-> <<>>, mutation |-> NoMutation,
      pr |-> None, action |-> "none", suggested |-> <<>>, requested |-> <<>>,
      answer |-> "none", response |-> <<>>,
      reviewersAdded |-> <<>>, reviewerError |-> None, result |-> None,
      error |-> <<>> ]

\* Mutant: the credential is not checked
resolveTokenUnchecked(githubToken, env) == TRUE

\* const token = githubToken || process.env.GITHUB_TOKEN, as presence
resolveToken(githubToken, env) == githubToken \/ env

\* The catch around the whole tool: one wrapped error carrying the message
wrapError(tool, message) ==
    << IF tool = "create_pr" THEN "Error creating PR: "
       ELSE "Error creating complete PR: " >> \o message

\* Mutant: a 404 is re-thrown like any other error
branchFailureRethrown(status, branch) == << "HttpError ", status >>

\* What the catch around repos.getBranch throws for a failed existence check
branchFailure(status, branch) ==
    IF status = "404"
    THEN << "Branch \"", branch,
            "\" does not exist on remote. Please push your branch first:\n  ",
            "git push -u origin ", branch >>
    ELSE << "HttpError ", status >>

Outcome(i, outcome) ==
    [ outcome |-> outcome,
      action |-> i.action,
      number |-> IF i.pr = None THEN 0 ELSE i.pr[1].number,
      existedBefore |-> i.existedBefore ]

\* The invocation throws: nothing after the failing statement runs
Throw(i, message) ==
    /\ inv' = [i EXCEPT !.pc = "threw", !.error = wrapError(i.tool, message)]
    /\ history' = Append(history, Outcome(i, "threw"))

\* The invocation returns its result
Return(i) ==
    /\ inv' = [i EXCEPT !.pc = "returned",
                        !.result = Some(resultOf(i.pr[1], i.action,
                                                 i.reviewersAdded, i.reviewerError))]
    /\ history' = Append(history, Outcome(i, "returned"))

\* A failure of reviewer assignment, thrown or not, is recorded in reviewerError and
\* the tool goes on to its return statement
recordFailureRethrown(i, note) == Throw(i, <<note.kind>>)

recordFailure(i, note) == Return([i EXCEPT !.reviewerError = Some(note)])

Continue(i) ==
    /\ inv' = [i EXCEPT !.pc = after(i.tool, i.pc)]
    /\ UNCHANGED history

Issue(names) == calls' = calls \o names

\* Lines 46-54: the credential is resolved before anything else
Invoke ==
    /\ inv.pc \in {"idle", "returned", "threw"}
    /\ Len(history) < MaxInvocations
    /\ \E tool \in Tools, githubToken \in BOOLEAN, env \in BOOLEAN :
         LET fresh == [IdleInv EXCEPT !.tool = tool,
                                      !.hasCredential = githubToken \/ env,
                                      !.existedBefore = existingPRsOf(prs) # <<>>]
         IN  /\ calls' = <<>>
             /\ IF resolveToken(githubToken, env)
                THEN /\ inv' = [fresh EXCEPT !.pc = "repository"]
                     /\ UNCHANGED history
                ELSE Throw(fresh, <<"GitHub token is required. ">>)
    /\ UNCHANGED prs
    /\ UNCHANGED titleVars
    /\ UNCHANGED toolVars

\* getGitHubRepoInfo, revparse, and detectMainBranch unless baseBranch is given
ResolveRepository ==
    /\ inv.pc = "repository"
    /\ \E urlParses \in BOOLEAN, baseBranchGiven \in BOOLEAN :
         IF urlParses
         THEN /\ Issue(<<"git.remote", "git.revparse">> \o
                       (IF baseBranchGiven THEN <<>> ELSE <<"detectMainBranch">>))
              /\ Continue(inv)
         ELSE /\ Issue(<<"git.remote">>)
              /\ Throw(inv, <<"Error getting GitHub repo info: ",
                              "Unable to parse GitHub repository from remote URL">>)
    /\ UNCHANGED prs
    /\ UNCHANGED titleVars
    /\ UNCHANGED toolVars

\* octokit.rest.repos.getBranch: 404 is reported with the push command, any other
\* error is re-thrown
VerifyRemoteBranch ==
    /\ inv.pc = "verifyBranch"
    /\ Issue(<<"repos.getBranch">>)
    /\ \E status \in {"200", "404", "500"} :
         LET checked == [inv EXCEPT !.remoteBranch = status]
         IN  IF status = "200"
             THEN Continue(checked)
             ELSE Throw(checked, branchFailure(status, CurrentBranch))
    /\ UNCHANGED prs
    /\ UNCHANGED titleVars
    /\ UNCHANGED toolVars

\* executeCreatePRComplete, STEP 1: analyzeBranch and gatherProjectContext
AnalyzeChanges ==
    /\ inv.pc = "analyze"
    /\ \E analysed \in BOOLEAN :
         IF analysed
         THEN /\ Issue(<<"analyzeBranch", "gatherProjectContext">>)
              /\ Continue(inv)
         ELSE /\ Issue(<<"analyzeBranch">>)
              /\ Throw(inv, <<"Error analyzing branch: ">>)
    /\ UNCHANGED prs
    /\ UNCHANGED titleVars
    /\ UNCHANGED toolVars

\* const finalTitle = title || await executeGenerateTitleSimple(maxTitleLength, base)
ResolveTitle ==
    /\ inv.pc = "title"
    /\ \E title \in {<<>>, SuppliedTitle}, maxTitleLength \in {0, 8}, analysed \in BOOLEAN :
         IF title # <<>>
         THEN /\ UNCHANGED calls
              /\ Continue([inv EXCEPT !.title = title])
         ELSE /\ Issue(<<"executeGenerateTitleSimple", "analyzeBranch">>)
              /\ IF analysed
                 THEN Continue([inv EXCEPT !.title =
                          executeGenerateTitleSimple(commits, filesList, maxTitleLength)])
                 ELSE Throw(inv, <<"Error analyzing branch: ">>)
    /\ UNCHANGED prs
    /\ UNCHANGED titleVars
    /\ UNCHANGED toolVars

\* executeCreatePR: executeGeneratePR; executeCreatePRComplete: the description
\* given, or else the template rendered over the analysis
ResolveDescription ==
    /\ inv.pc = "description"
    /\ \E description \in {"none", "custom"}, analysed \in BOOLEAN :
         IF inv.tool = "create_pr"
         THEN /\ Issue(<<"executeGeneratePR", "analyzeBranch">>)
              /\ IF analysed
                 THEN Continue([inv EXCEPT !.body = "generated"])
                 ELSE Throw(inv, <<"Error generating PR description: ",
                                   "Error analyzing branch: ">>)
         ELSE IF description # "none"
              THEN /\ UNCHANGED calls
                   /\ Continue([inv EXCEPT !.body = description])
              ELSE /\ Issue(<<"prTemplates">>)
                   /\ Continue([inv EXCEPT !.body = "generated"])
    /\ UNCHANGED prs
    /\ UNCHANGED titleVars
    /\ UNCHANGED toolVars

\* octokit.rest.pulls.list for (owner:currentBranch, base, state 'all')
ListExisting ==
    /\ inv.pc = "list"
    /\ Issue(<<"pulls.list">>)
    /\ \E answered \in BOOLEAN :
         IF answered
         THEN Continue([inv EXCEPT !.existing = existingPRsOf(prs)])
         ELSE Throw(inv, <<"HttpError ", "500">>)
    /\ UNCHANGED prs
    /\ UNCHANGED titleVars
    /\ UNCHANGED toolVars

\* The create / update / reopen branch on existingPRs
Transition ==
    /\ inv.pc = "transition"
    /\ LET m == mutationFor(inv.existing, inv.title, inv.body)
           sent == [inv EXCEPT !.mutation = m]
       IN  /\ Issue(<< IF m.op = "create" THEN "pulls.create" ELSE "pulls.update" >>)
           /\ \E accepted \in BOOLEAN :
                IF accepted
                THEN /\ prs' = remoteAfter(prs, m)
                     /\ Continue([sent EXCEPT !.pr = Some(responseOf(prs, m)),
                                              !.action = m.action])
                ELSE /\ UNCHANGED prs
                     /\ Throw(sent, <<"HttpError ", "422">>)
    /\ UNCHANGED titleVars
    /\ UNCHANGED toolVars

\* What executeSuggestReviewers resolves to: suggestReviewers catches every
\* failure and returns it as an error with no suggestion
ResolverResults ==
    {[error |-> TRUE, suggestedReviewers |-> <<>>]} \cup
    {[error |-> FALSE, suggestedReviewers |-> l] : l \in Suggestions}

\* if (addReviewers): the resolver is asked for up to maxReviewers logins
SuggestReviewers ==
    /\ inv.pc = "reviewers"
    /\ \E addReviewers \in BOOLEAN, r \in ResolverResults :
         IF ~addReviewers
         THEN /\ UNCHANGED calls
              /\ Return(inv)
         ELSE /\ Issue(<<"executeSuggestReviewers", "analyzeBranch">>)
              /\ IF r.error
                 THEN recordFailure(inv, Note("resolver error", <<>>))
                 ELSE IF Len(r.suggestedReviewers) = 0
                 THEN recordFailure(inv, Note("No reviewers could be suggested", <<>>))
                 ELSE /\ inv' = [inv EXCEPT !.pc = "authenticate",
                                            !.suggested = r.suggestedReviewers]
                      /\ UNCHANGED history
    /\ UNCHANGED prs
    /\ UNCHANGED titleVars
    /\ UNCHANGED toolVars

\* octokit.rest.users.getAuthenticated, then the caller is filtered out; a
\* failure is caught by the try around the whole reviewer block
Authenticate ==
    /\ inv.pc = "authenticate"
    /\ Issue(<<"users.getAuthenticated">>)
    /\ \E answered \in BOOLEAN :
         LET reviewerLogins == filterAuthor(inv.suggested, CurrentUser)
             detail == IF inv.tool = "create_pr" THEN inv.suggested ELSE <<>>
         IN  IF ~answered
             THEN recordFailure(inv, Note("Unexpected error", <<>>))
             ELSE IF Len(reviewerLogins) = 0
             THEN recordFailure(inv, Note("all filtered out", detail))
             ELSE /\ inv' = [inv EXCEPT !.pc = "request", !.requested = reviewerLogins]
                  /\ UNCHANGED history
    /\ UNCHANGED prs
    /\ UNCHANGED titleVars
    /\ UNCHANGED toolVars

\* octokit.rest.pulls.requestReviewers and the verification of its response
RequestReviewers ==
    /\ inv.pc = "request"
    /\ Issue(<<"pulls.requestReviewers">>)
    /\ \E answered \in BOOLEAN, requested_reviewers \in Responses :
         LET detail == IF inv.tool = "create_pr" THEN inv.suggested ELSE <<>>
             kept == afterResponse(inv.requested, requested_reviewers)
         IN  IF ~answered
             THEN recordFailure([inv EXCEPT !.answer = "error"],
                               Note("GitHub API error", detail))
             ELSE Return([inv EXCEPT !.answer = "ok",
                                     !.response = requested_reviewers,
                                     !.reviewersAdded = kept.reviewersAdded,
                                     !.reviewerError = kept.reviewerError])
    /\ UNCHANGED prs
    /\ UNCHANGED titleVars
    /\ UNCHANGED toolVars

Init ==
    /\ commits = << <<"f","i","x",":"," ","l","o","g","i","n">> >>
    /\ filesList = << <<"s","r","c","/","a",".","t","s">> >>
    /\ maxLength = 0
    /\ titlePc = "idle"
    /\ rendered = <<>>
    /\ prs \in InitialRemotes
    /\ inv = IdleInv
    /\ calls = <<>>
    /\ history = <<>>
    /\ ToolsIdle

Next ==
    \/ Invoke
    \/ ResolveRepository
    \/ VerifyRemoteBranch
    \/ AnalyzeChanges
    \/ ResolveTitle
    \/ ResolveDescription
    \/ ListExisting
    \/ Transition
    \/ SuggestReviewers
    \/ Authenticate
    \/ RequestReviewers

Spec == Init /\ [][Next]_vars

\* The positions in the remote of the pull requests of (currentBranch, baseBranch)
matching(remote) ==
    {i \in DOMAIN remote : remote[i].head = CurrentBranch /\ remote[i].base = BaseBranch}

firstMatching(remote) ==
    CHOOSE i \in matching(remote) : \A j \in matching(remote) : i <= j

othersUntouched(before, now, k) ==
    \A i \in DOMAIN before : i # k => now[i + Len(now) - Len(before)] = before[i]

transitioned == inv.pc = "transition" /\ inv'.pc = "reviewers"

(***************************************************************************)
(* C1: the transition step is fixed by the pull requests the remote holds  *)
(* for (currentBranch, baseBranch), open or closed: none, a new one is     *)
(* created and action is "created"; the first is closed, it gets the title,*)
(* the body and state open, and action is "reopened"; the first is open,   *)
(* it gets the title and the body, keeps its state, and action is          *)
(* "updated".                                                              *)
(***************************************************************************)
C1_TransitionFollowsLookup ==
    [][ transitioned =>
          IF matching(prs) = {}
          THEN /\ inv'.action = "created"
               /\ inv'.mutation.op = "create"
               /\ Len(prs') = Len(prs) + 1
               /\ prs'[1].title = inv.title /\ prs'[1].body = inv.body
               /\ prs'[1].head = CurrentBranch /\ prs'[1].base = BaseBranch
               /\ inv'.pr = Some(prs'[1])
               /\ othersUntouched(prs, prs', 0)
          ELSE LET k == firstMatching(prs)
               IN  /\ inv'.mutation.op = "update"
                   /\ inv'.mutation.number = prs[k].number
                   /\ Len(prs') = Len(prs)
                   /\ othersUntouched(prs, prs', k)
                   /\ inv'.pr = Some(prs'[k])
                   /\ prs'[k] = [prs[k] EXCEPT !.title = inv.title, !.body = inv.body,
                                               !.state = "open"]
                   /\ IF prs[k].state = "closed"
                      THEN inv'.action = "reopened" /\ inv'.mutation.state = "open"
                      ELSE inv'.action = "updated" /\ inv'.mutation.state = "unset"
      ]_vars

\* A closed pull request has been reopened with the invocation's title and body
C1_Witness ==
    /\ inv.pc = "reviewers"
    /\ inv.action = "reopened"
    /\ inv.existing # <<>> /\ inv.existing[1].state = "closed"
    /\ inv.pr[1].state = "open" /\ inv.pr[1].title = inv.title

(***************************************************************************)
(* C2: of two invocations run one after the other that both return, the    *)
(* first starting with no pull request for (currentBranch, baseBranch),    *)
(* the first returns action "created", the second "updated", and both      *)
(* carry the same number.                                                  *)
(***************************************************************************)
C2_CreatedThenUpdated ==
    \A i \in 1..(Len(history) - 1) :
        ( /\ history[i].outcome = "returned"
          /\ history[i + 1].outcome = "returned"
          /\ ~history[i].existedBefore )
        => /\ history[i].action = "created"
           /\ history[i + 1].action = "updated"
           /\ history[i + 1].number = history[i].number

C2_Witness ==
    /\ Len(history) = 2
    /\ history[1].outcome = "returned" /\ ~history[1].existedBefore
    /\ history[2].outcome = "returned" /\ history[2].action = "updated"

(***************************************************************************)
(* C3: once the create/update/reopen step has succeeded the invocation     *)
(* does not throw: every failure of reviewer assignment (the resolver's,   *)
(* the identity lookup's, the reviewer request's) ends in a returned       *)
(* result for the pull request of that step.                               *)
(***************************************************************************)
C3_ReviewerFailureNeverThrows ==
    /\ inv.pr # None => inv.pc \in {"reviewers", "authenticate", "request", "returned"}
    /\ inv.reviewerError # None =>
          /\ inv.pc = "returned"
          /\ inv.result # None
          /\ inv.result[1].number = inv.pr[1].number

\* The identity lookup failed, or the reviewer request did, and the tool returned
C3_Witness ==
    /\ inv.pc = "returned"
    /\ inv.reviewerError \in { Some(Note("Unexpected error", <<>>)),
                                Some(Note("GitHub API error", <<>>)) }

\* A result with the fields named left out of the comparison
masked(result, fields) ==
    [f \in (DOMAIN result) \ fields |-> result[f]]

\* What the tool returns after a failed reviewer assignment
failedResult == resultOf(inv.pr[1], inv.action, <<>>, Some(Note("Unexpected error", <<>>)))

(***************************************************************************)
(* C4 as claimed: for a fixed outcome of the create/update/reopen step the *)
(* returned result differs from the result of a failed reviewer assignment *)
(* in reviewerNote only.                                                   *)
(***************************************************************************)
C4_OnlyNoteDiffers ==
    inv.pc = "returned" =>
        masked(inv.result[1], {"reviewerNote"}) = masked(failedResult, {"reviewerNote"})

(***************************************************************************)
(* C4 as amended: for a fixed outcome of the create/update/reopen step the *)
(* state and action (and url, number, title) of the returned result are    *)
(* those of that step whether reviewer assignment succeeds, partially      *)
(* succeeds or fails; only reviewers, reviewersAdded and reviewerNote      *)
(* differ.                                                                 *)
(***************************************************************************)
C4_ReviewerFieldsOnlyDiffer ==
    inv.pc = "returned" =>
        /\ inv.result[1].state = inv.pr[1].state
        /\ inv.result[1].action = inv.action
        /\ masked(inv.result[1], {"reviewers", "reviewersAdded", "reviewerNote"})
             = masked(failedResult, {"reviewers", "reviewersAdded", "reviewerNote"})

\* Reviewer assignment partially succeeded: reviewers are reported beside a note
C4_Witness ==
    /\ inv.pc = "returned"
    /\ inv.result[1].reviewersAdded > 0
    /\ inv.result[1].reviewerNote # None

(***************************************************************************)
(* C5: no login in the returned list of added reviewers equals the         *)
(* authenticated caller's login, compared case-insensitively.              *)
(***************************************************************************)
C5_CallerNeverAdded ==
    (inv.pc = "returned" /\ inv.result[1].reviewers # None) =>
        \A l \in Range(inv.result[1].reviewers[1]) :
            toLowerCase(l) # toLowerCase(CurrentUser)

(***************************************************************************)
(* C6: when the reviewer request has been answered and some requested      *)
(* login is not among the logins the remote reports, the invocation        *)
(* returns and reviewerNote reports the discrepancy.                       *)
(***************************************************************************)
C6_DiscrepancyReported ==
    ( /\ inv.answer = "ok"
      /\ \E l \in Range(inv.requested) : l \notin Range(inv.response) )
    => /\ inv.pc = "returned"
       /\ inv.result[1].reviewerNote # None
       /\ inv.result[1].reviewerNote[1].kind \in {"none accepted", "partially successful"}

hasPushCommand(message, branch) ==
    \E i \in 1..(Len(message) - 1) :
        message[i] = "git push -u origin " /\ message[i + 1] = branch

(***************************************************************************)
(* C7: when the branch-existence check answers 404 the invocation fails    *)
(* with a message holding the command `git push -u origin <currentBranch>` *)
(* and has issued no list, create, update or request-reviewers call.       *)
(***************************************************************************)
C7_MissingBranchIsFatal ==
    inv.remoteBranch = "404" =>
        /\ inv.pc = "threw"
        /\ hasPushCommand(inv.error, CurrentBranch)
        /\ Range(calls) \cap {"pulls.list", "pulls.create", "pulls.update",
                              "pulls.requestReviewers"} = {}

\* executeCreatePRComplete reached its branch check, after title and description
C7_Witness ==
    /\ inv.remoteBranch = "404"
    /\ inv.tool = "create_pr_complete"
    /\ inv.title # <<>>

(***************************************************************************)
(* C8: with no credential in the parameters and none in the environment    *)
(* the invocation fails before any repository query or remote API call.    *)
(***************************************************************************)
C8_MissingCredentialIsFatal ==
    (inv.pc # "idle" /\ ~inv.hasCredential) =>
        /\ inv.pc = "threw"
        /\ calls = <<>>

C8_Witness ==
    /\ inv.pc = "threw"
    /\ ~inv.hasCredential
    /\ Len(history) = 2

(***************************************************************************)
(* generate_pr_title as a state machine: the Analyzer's output and the     *)
(* maxLength argument are the inputs, one step renders the title.          *)
(***************************************************************************)
SubjectAlphabet == {"a", ".", " "}

RECURSIVE StringsUpTo(_)
StringsUpTo(n) ==
    IF n = 0 THEN {<<>>}
    ELSE LET shorter == StringsUpTo(n - 1)
         IN  shorter \cup {Append(s, c) : s \in shorter, c \in SubjectAlphabet}

Prefixes ==
    { <<>>,
      <<"c","i",":"," ">>,
      <<"f","e","a","t","(","u","i",")",":"," ">>,
      <<"D","o","c","s",":">> }

Suffixes == { <<>>, <<"a","a","a","a">> }

\* A commit message: a prefix, every string of up to MaxSubjectLen characters of
\* SubjectAlphabet, and a tail that makes the title long enough to be cut
GeneratedMessages ==
    {p \o s \o t : p \in Prefixes, s \in StringsUpTo(MaxSubjectLen), t \in Suffixes}

MessageLists ==
    {<<>>} \cup {<<m>> : m \in GeneratedMessages}

FileLists ==
    { <<>>,
      << <<"s","r","c","/","a",".","t","s">> >>,
      << <<"R","E","A","D","M","E">> >>,
      << <<"p","a","c","k","a","g","e","s","/","a","p","i","/","a",".","t","s">> >>,
      << <<"s","r","c","/","b">>, <<"d","o","c","s","/","x">> >> }

TitleInit ==
    /\ commits \in MessageLists
    /\ filesList \in FileLists
    /\ maxLength \in 0..MaxTitleLength
    /\ titlePc = "idle"
    /\ rendered = <<>>
    /\ prs = <<>>
    /\ inv = IdleInv
    /\ calls = <<>>
    /\ history = <<>>
    /\ ToolsIdle

GenerateTitle ==
    /\ titlePc = "idle"
    /\ rendered' = executeGenerateTitle(commits, filesList, maxLength)
    /\ titlePc' = "done"
    /\ UNCHANGED <<commits, filesList, maxLength>>
    /\ UNCHANGED prVars
    /\ UNCHANGED toolVars

TitleNext == GenerateTitle

TitleSpec == TitleInit /\ [][TitleNext]_vars

\* The title before truncation
untruncated == executeGenerateTitle(commits, filesList, 0)

\* executeGenerateTitle took its truncating branch
truncated == titlePc = "done" /\ maxLength # 0 /\ Len(untruncated) > maxLength

(***************************************************************************)
(* C9: for every maxLength >= 3 the returned title is at most maxLength    *)
(* characters long.                                                        *)
(***************************************************************************)
C9_TitleWithinMaxLength ==
    (titlePc = "done" /\ maxLength >= 3) => Len(rendered) <= maxLength

(***************************************************************************)
(* C10 as claimed: a truncated title (maxLength >= 3) ends with exactly    *)
(* three periods: its last three characters are periods and the character  *)
(* before them, if any, is not a period.                                   *)
(***************************************************************************)
C10_ExactlyThreePeriods ==
    (truncated /\ maxLength >= 3) =>
        LET n == Len(rendered)
        IN  /\ n >= 3
            /\ SubSeq(rendered, n - 2, n) = Ellipsis
            /\ (n >= 4 => rendered[n - 3] # ".")

(***************************************************************************)
(* C10 as amended: a truncated title (maxLength >= 3) ends with three      *)
(* periods, and a period directly before them is a character of the        *)
(* untruncated title at that same position, never one the truncation adds. *)
(***************************************************************************)
C10_EndsWithEllipsis ==
    (truncated /\ maxLength >= 3) =>
        LET n == Len(rendered)
        IN  /\ n >= 3
            /\ SubSeq(rendered, n - 2, n) = Ellipsis
            /\ (n >= 4 /\ rendered[n - 3] = "." =>
                    n - 3 <= Len(untruncated) /\ untruncated[n - 3] = ".")

\* A truncated title whose kept part ends in a period: four periods in a row
C10_Witness ==
    /\ truncated
    /\ maxLength >= 3
    /\ Len(rendered) >= 4
    /\ rendered[Len(rendered) - 3] = "."

(***************************************************************************)
(* Title inference as a state machine: the Analyzer's commit messages and  *)
(* file paths are the inputs, one step infers type, scope and subject.     *)
(***************************************************************************)
TitleIdle ==
    /\ commits = <<>>
    /\ filesList = <<>>
    /\ maxLength = 0
    /\ titlePc = "idle"
    /\ rendered = <<>>

PrIdle ==
    /\ prs = <<>>
    /\ inv = IdleInv
    /\ calls = <<>>
    /\ history = <<>>

PackagesApiFile == <<"p","a","c","k","a","g","e","s","/","a","p","i","/","a",".","t","s">>
SrcFile == <<"s","r","c","/","b",".","t","s">>

RoutesFile ==
    <<"p","a","c","k","a","g","e","s","/","a","p","i","/","s","r","c","/",
      "r","o","u","t","e","s",".","t","s">>
LibsFile == <<"l","i","b","s","/","x",".","t","s">>

SamplePaths ==
    { PackagesApiFile, SrcFile, RoutesFile, LibsFile,
      <<"d","o","c","s","/","x">>,
      <<"R","E","A","D","M","E">>,
      <<"A","p","p","s","/","w","e","b"," ","u","i","/","x">>,
      <<"l","i","b","/","c">> }

UpdateDependencies == <<"u","p","d","a","t","e"," ","d","e","p","e","n","d","e","n","c","i","e","s">>

DocsReadme == <<"D","o","c","s",":"," ","R","e","a","d","m","e">>

SampleMessages ==
    { <<"f","e","a","t",":"," ","a">>,
      <<"F","i","x","(","u","i",")",":"," ","b">>,
      <<"f","e","a","t","u","r","e"," ","x">>,
      <<"b","u","g","f","i","x">>,
      <<"a","d","d"," ","f","e","a","t">>,
      <<"r","e","f","a","c","t","o","r">>,
      <<"a"," ","t","e","s","t">>,
      DocsReadme,
      UpdateDependencies }

FeatAuthAddOAuth ==
    <<"f","e","a","t","(","a","u","t","h",")",":"," ","a","d","d"," ","O","A","u","t","h">>

\* The changed files vary, under one commit
InferScopeInit ==
    /\ commits \in { << <<"f","i","x",":"," ","l","o","g","i","n">> >>, <<FeatAuthAddOAuth>> }
    /\ filesList \in ListsUpTo(SamplePaths, MaxFiles)
    /\ maxLength = 0
    /\ titlePc = "idle"
    /\ rendered = <<>>
    /\ PrIdle
    /\ ToolsIdle

\* The commit messages vary, under one changed file
InferTypeInit ==
    /\ commits \in ListsUpTo(SampleMessages, MaxCommits)
    /\ filesList = <<SrcFile>>
    /\ maxLength = 0
    /\ titlePc = "idle"
    /\ rendered = <<>>
    /\ PrIdle
    /\ ToolsIdle

\* executeGenerateTitle: the three inferences of lines 79-81 and the title returned
Infer ==
    /\ inferred = <<>>
    /\ inferred' = << [ type |-> inferTypeFromCommits(commits),
                        scope |-> inferScopeFromFiles(filesList),
                        subject |-> inferSubjectFromCommits(commits),
                        title |-> executeGenerateTitle(commits, filesList, maxLength) ] >>
    /\ UNCHANGED <<titleVars, prVars>>
    /\ UNCHANGED <<resolver, suggestion, detection, gif, review, analysis, splice, racers, overlap>>

InferNext == Infer

InferScopeSpec == InferScopeInit /\ [][InferNext]_vars

InferTypeSpec == InferTypeInit /\ [][InferNext]_vars

Api == <<"a","p","i">>

\* The positions of the paths that yield an accepted scope candidate
accepting(files) == {i \in DOMAIN files : scopeOfFile(files[i]) # <<>>}

(***************************************************************************)
(* C11 as claimed: the first path producing an accepted candidate wins;    *)
(* packages/api/a.ts, src/b.ts yields scope api and the reordered list     *)
(* src/b.ts, packages/api/a.ts yields no scope.                            *)
(***************************************************************************)
C11_ReorderedYieldsNoScope ==
    inferred # <<>> =>
        /\ (filesList = <<PackagesApiFile, SrcFile>> => inferred[1].scope = Api)
        /\ (filesList = <<SrcFile, PackagesApiFile>> => inferred[1].scope = <<>>)

(***************************************************************************)
(* C11 as amended: the scope is the candidate of the first path, in list   *)
(* order, that produces an accepted candidate, and absent when no path     *)
(* does; packages/api/a.ts, src/b.ts yields api, and so does the reordered *)
(* list, whose first path src/b.ts is rejected so that the scan moves on.  *)
(***************************************************************************)
C11_FirstAcceptedWins ==
    inferred # <<>> =>
        /\ IF accepting(filesList) = {}
           THEN inferred[1].scope = <<>>
           ELSE \E i \in accepting(filesList) :
                    /\ \A j \in accepting(filesList) : i <= j
                    /\ inferred[1].scope = scopeOfFile(filesList[i])
        /\ (filesList = <<PackagesApiFile, SrcFile>> => inferred[1].scope = Api)
        /\ (filesList = <<SrcFile, PackagesApiFile>> => inferred[1].scope = Api)

\* The reordered list has been scanned past its rejected first path
C11_Witness ==
    /\ inferred # <<>>
    /\ filesList = <<SrcFile, PackagesApiFile>>
    /\ inferred[1].scope = Api

\* m starts with `t:` or `t(`, or t is feat and m starts with the word feature
prefixedWith(m, t) ==
    \/ startsWith(toLowerCase(m), t \o <<":">>)
    \/ startsWith(toLowerCase(m), t \o <<"(">>)
    \/ (t = Feat /\ startsWith(toLowerCase(m), Feature))

prefixed(m) == \E t \in Range(CONVENTIONAL_TYPES) : prefixedWith(m, t)

mentions(messages, words) ==
    \E i \in DOMAIN messages : \E w \in words : includes(toLowerCase(messages[i]), w)

NoReplyDomain == <<"@","u","s","e","r","s",".","n","o","r","e","p","l","y",".","g","i","t","h","u","b",".","c","o","m">>
OtherNoReplyDomain == <<"@","u","s","e","r","s",".","n","o","r","e","p","l","y",".","e","x","a","m","p","l","e",".","c","o","m">>
CompanyDomain == <<"@","c","o","m","p","a","n","y",".","c","o","m">>

IsAlnum(c) == IsLetter(c) \/ c \in Digits

\* email.split('@')[0]
localPart(email) ==
    IF \E i \in DOMAIN email : email[i] = "@"
    THEN SubSeq(email, 1, (CHOOSE i \in DOMAIN email :
                              email[i] = "@" /\ \A j \in 1..(i - 1) : email[j] # "@") - 1)
    ELSE email

\* The first capture group of the leftmost match of
\* /(?:\d+\+)?([^@]+)@users\.noreply\.github\.com/ in email, <<>> without a match
noreplyMatch(email) ==
    LET ats == {k \in DOMAIN email :
                   /\ k > 1 /\ email[k - 1] # "@"
                   /\ startsWith(sliceFrom(email, k - 1), NoReplyDomain)}
    IN  IF ats = {} THEN <<>>
        ELSE LET k == CHOOSE a \in ats : \A b \in ats : a <= b
                 before == {j \in 1..(k - 1) : email[j] = "@"}
                 from == IF before = {} THEN 1
                         ELSE 1 + (CHOOSE j \in before : \A b \in before : b <= j)
                 segment == SubSeq(email, from, k - 1)
                 digits == CHOOSE n \in 0..Len(segment) :
                               /\ \A i \in 1..n : segment[i] \in Digits
                               /\ (n < Len(segment) => segment[n + 1] \notin Digits)
             IN  IF digits >= 1 /\ Len(segment) > digits + 1 /\ segment[digits + 1] = "+"
                 THEN sliceFrom(segment, digits + 1)
                 ELSE segment

\* s.replace(/[^a-zA-Z0-9]/g, '').toLowerCase()
withoutSeparators(s) == toLowerCase(SelectSeq(s, IsAlnum))

\* s.replace(/[^a-zA-Z0-9-]/g, '-').toLowerCase()
withHyphens(s) ==
    toLowerCase([i \in 1..Len(s) |-> IF IsAlnum(s[i]) \/ s[i] = "-" THEN s[i] ELSE "-"])

\* name.replace(/\s+/g, '').toLowerCase()
nameWithoutSpaces(name) == toLowerCase(SelectSeq(name, LAMBDA c : ~IsSpace(c)))

\* name.replace(/\s+/g, '-').toLowerCase(): each run of whitespace becomes one hyphen
RECURSIVE nameWithHyphens(_)
nameWithHyphens(name) ==
    IF name = <<>> THEN <<>>
    ELSE IF IsSpace(name[1])
         THEN <<"-">> \o nameWithHyphens(trimStart(name))
         ELSE <<toLowerCaseChar(name[1])>> \o nameWithHyphens(Tail(name))

\* Mutant: the no-reply pattern is not tried
extractGitHubUsernameLocalOnly(email, name) ==
    IF Len(localPart(email)) > 0 /\ Len(withoutSeparators(localPart(email))) >= 3
    THEN withoutSeparators(localPart(email))
    ELSE IF Len(localPart(email)) > 0
    THEN withHyphens(localPart(email))
    ELSE IF Len(nameWithoutSpaces(name)) >= 3
    THEN nameWithoutSpaces(name)
    ELSE nameWithHyphens(name)

extractGitHubUsername(email, name) ==
    IF noreplyMatch(email) # <<>>
    THEN noreplyMatch(email)
    ELSE IF Len(localPart(email)) > 0 /\ Len(withoutSeparators(localPart(email))) >= 3
    THEN withoutSeparators(localPart(email))
    ELSE IF Len(localPart(email)) > 0
    THEN withHyphens(localPart(email))
    ELSE IF Len(nameWithoutSpaces(name)) >= 3
    THEN nameWithoutSpaces(name)
    ELSE nameWithHyphens(name)

NumberedAlice == <<"1","2","3","4","5","+","a","l","i","c","e">>

LocalParts ==
    { <<>>, Alice, NumberedAlice,
      <<"j","o","h","n",".","d","o","e">>,
      <<"a",".","b">>,
      <<"7","+">>,
      <<"x","@","b","o","b">> }

Domains == {<<>>, NoReplyDomain, OtherNoReplyDomain, CompanyDomain}

AuthorNames ==
    { <<>>,
      <<"A","l">>,
      <<"J","o","h","n"," ","D","o","e">>,
      <<"A"," "," ","B">> }

ResolveInit ==
    /\ resolver \in {[pc |-> "idle", email |-> l \o d, name |-> n, username |-> <<>>] :
                        l \in LocalParts, d \in Domains, n \in AuthorNames}
    /\ inferred = <<>>
    /\ suggestion = IdleSuggestion
    /\ detection = IdleDetection
    /\ gif = IdleGif
    /\ review = IdleReview
    /\ analysis = IdleAnalysis
    /\ TitleIdle
    /\ PrIdle
    /\ splice = IdleSplice
    /\ racers = IdleRacers
    /\ overlap = IdleOverlap

\* suggestReviewers, line 300: the username of one contributor
ResolveUsername ==
    /\ resolver.pc = "idle"
    /\ resolver' = [resolver EXCEPT
                       !.pc = "done",
                       !.username = extractGitHubUsername(resolver.email, resolver.name)]
    /\ UNCHANGED <<titleVars, prVars>>
    /\ UNCHANGED <<inferred, suggestion, detection, gif, review, analysis, splice, racers, overlap>>

ResolveNext == ResolveUsername

ResolveSpec == ResolveInit /\ [][ResolveNext]_vars

(***************************************************************************)
(* C13 as claimed: the no-reply pattern [digits+]username@users.noreply.   *)
(* <host> is applied first for any host: the email                         *)
(* 12345+alice@users.noreply.example.com resolves to alice, never to a     *)
(* variant derived from the local part.                                    *)
(***************************************************************************)
C13_NoReplyAnyHost ==
    (resolver.pc = "done" /\ resolver.email = NumberedAlice \o OtherNoReplyDomain)
        => resolver.username = Alice

(***************************************************************************)
(* C13 as amended: the no-reply pattern is applied first for the host      *)
(* users.noreply.github.com only: 12345+alice@users.noreply.github.com and *)
(* alice@users.noreply.github.com resolve to alice, never to a variant     *)
(* derived by stripping or hyphenating the local part; under another host  *)
(* the pattern does not apply and the local part is stripped.              *)
(***************************************************************************)
C13_NoReplyGitHubFirst ==
    resolver.pc = "done" =>
        /\ resolver.email \in {NumberedAlice \o NoReplyDomain, Alice \o NoReplyDomain}
              => resolver.username = Alice
        /\ resolver.email = NumberedAlice \o OtherNoReplyDomain
              => resolver.username = withoutSeparators(NumberedAlice)

C13_Witness ==
    /\ resolver.pc = "done"
    /\ resolver.email = NumberedAlice \o NoReplyDomain
    /\ resolver.username = Alice

(***************************************************************************)
(* Reviewer resolution (analyzer.ts, suggestReviewers): the Analyzer's     *)
(* answer and the history of every changed file are the inputs.            *)
(***************************************************************************)
FilesToAnalyze == 10

Commit(name, email) == [author_name |-> name, author_email |-> email]

AliceCommit == Commit(<<"A","l","i","c","e">>, Alice \o NoReplyDomain)
BobCommit == Commit(<<"B","o","b">>, Bob \o CompanyDomain)
NamelessCommit == Commit(<<>>, Carol \o CompanyDomain)

\* Two authors whose name and email hold the character |
PipeNameCommit == Commit(<<"A","|","b">>, <<"c","@","x">>)
PipeEmailCommit == Commit(<<"A">>, <<"b","|","c","@","x">>)

\* git log --follow <file>: the query fails, or answers the file's commits
LogFailed == [failed |-> TRUE, all |-> <<>>]
Log(all) == [failed |-> FALSE, all |-> all]

SampleLogs ==
    { LogFailed,
      Log(<<>>),
      Log(<<AliceCommit>>),
      Log(<<BobCommit>>),
      Log(<<BobCommit, AliceCommit>>),
      Log(<<AliceCommit, BobCommit, BobCommit>>),
      Log(<<NamelessCommit>>),
      Log(<<PipeNameCommit, PipeEmailCommit>>) }

\* Eleven changed files: ten with the same history, and one more
LongLogs ==
    { [i \in 1..FilesToAnalyze |-> first] \o <<last>> :
          first \in {Log(<<>>), Log(<<AliceCommit>>)}, last \in SampleLogs }

Limits == 1..3

\* The key of the fileAuthors map
authorKey(commit) == commit.author_name \o <<"|">> \o commit.author_email

\* log.all.forEach: one commit counted into fileAuthors (kept in insertion order)
countCommit(fileAuthors, commit) ==
    IF commit.author_name # <<>> /\ commit.author_email # <<>>
    THEN IF \E i \in DOMAIN fileAuthors : fileAuthors[i].key = authorKey(commit)
         THEN [i \in DOMAIN fileAuthors |->
                  IF fileAuthors[i].key = authorKey(commit)
                  THEN [fileAuthors[i] EXCEPT !.count = @ + 1]
                  ELSE fileAuthors[i]]
         ELSE Append(fileAuthors, [key |-> authorKey(commit), email |-> commit.author_email,
                                   name |-> commit.author_name, count |-> 1])
    ELSE fileAuthors

RECURSIVE countLog(_, _)
countLog(fileAuthors, all) ==
    IF all = <<>> THEN fileAuthors
    ELSE countLog(countCommit(fileAuthors, Head(all)), Tail(all))

\* The loop over filesToAnalyze: a file whose query fails is skipped
RECURSIVE countFiles(_, _)
countFiles(acc, logs) ==
    IF logs = <<>> THEN acc
    ELSE IF Head(logs).failed THEN countFiles(acc, Tail(logs))
    ELSE countFiles([ fileAuthors |-> countLog(acc.fileAuthors, Head(logs).all),
                      totalCommitsAnalyzed |->
                          acc.totalCommitsAnalyzed + Len(Head(logs).all) ],
                    Tail(logs))

\* Mutant: of two contributors with the same count the one seen last comes first
RECURSIVE sortByCountLastSeenFirst(_)
sortByCountLastSeenFirst(authors) ==
    IF authors = <<>> THEN <<>>
    ELSE LET rest == sortByCountLastSeenFirst(SubSeq(authors, 1, Len(authors) - 1))
             last == authors[Len(authors)]
             ahead == SelectSeq(rest, LAMBDA a : a.count > last.count)
             behind == SelectSeq(rest, LAMBDA a : a.count <= last.count)
         IN  ahead \o <<last>> \o behind

\* Array.prototype.sort((a, b) => b.count - a.count): stable, highest count first
RECURSIVE sortByCount(_)
sortByCount(authors) ==
    IF authors = <<>> THEN <<>>
    ELSE LET rest == sortByCount(SubSeq(authors, 1, Len(authors) - 1))
             last == authors[Len(authors)]
             ahead == SelectSeq(rest, LAMBDA a : a.count >= last.count)
             behind == SelectSeq(rest, LAMBDA a : a.count < last.count)
         IN  ahead \o <<last>> \o behind

suggestedReviewer(author) ==
    LET username == extractGitHubUsername(author.email, author.name)
    IN  [ author |-> IF username # <<>> THEN username ELSE author.name,
          contributions |-> author.count ]

ReviewersResult(suggestedReviewers, basedOn, error) ==
    [ threw |-> FALSE, suggestedReviewers |-> suggestedReviewers,
      basedOn |-> basedOn, error |-> error ]

\* Mutant: the outer catch re-throws
rethrownBySuggest(message) ==
    [ threw |-> TRUE, suggestedReviewers |-> <<>>, basedOn |-> "none", error |-> message ]

\* The catch around the whole of suggestReviewers
caughtBySuggest(message) ==
    ReviewersResult(<<>>, "Unable to determine reviewers due to error", message)

suggestReviewers(analyzer, logs, limit) ==
    IF analyzer = "failed"
    THEN caughtBySuggest(<<"Error analyzing branch: ", "fatal">>)
    ELSE IF Len(logs) = 0
    THEN ReviewersResult(<<>>, "No files were modified in this branch",
                         <<"No modified files to analyze">>)
    ELSE LET counted == countFiles([fileAuthors |-> <<>>, totalCommitsAnalyzed |-> 0],
                                   sliceTo(logs, FilesToAnalyze))
             sorted == sliceTo(sortByCount(counted.fileAuthors), limit)
         IN  IF counted.totalCommitsAnalyzed = 0
             THEN ReviewersResult(<<>>, "found no Git history",
                                  <<"No commit history found for modified files">>)
             ELSE IF Len(sorted) = 0
             THEN ReviewersResult(<<>>, "no valid contributors found",
                                  <<"No valid contributors extracted from Git history">>)
             ELSE ReviewersResult([i \in DOMAIN sorted |-> suggestedReviewer(sorted[i])],
                                  "Analyzed", <<>>)

SuggestInit ==
    /\ suggestion \in {[IdleSuggestion EXCEPT !.analyzer = a, !.logs = l, !.limit = n] :
                          a \in {"ok", "failed"},
                          l \in ListsUpTo(SampleLogs, MaxChangedFiles) \cup LongLogs,
                          n \in Limits}
    /\ inferred = <<>>
    /\ resolver = [pc |-> "idle", email |-> <<>>, name |-> <<>>, username |-> <<>>]
    /\ detection = IdleDetection
    /\ gif = IdleGif
    /\ review = IdleReview
    /\ analysis = IdleAnalysis
    /\ TitleIdle
    /\ PrIdle
    /\ splice = IdleSplice
    /\ racers = IdleRacers
    /\ overlap = IdleOverlap

Suggest ==
    /\ suggestion.pc = "idle"
    /\ suggestion' = [suggestion EXCEPT
                         !.pc = "done",
                         !.result = << suggestReviewers(suggestion.analyzer,
                                                        suggestion.logs,
                                                        suggestion.limit) >>]
    /\ UNCHANGED <<titleVars, prVars>>
    /\ UNCHANGED <<inferred, resolver, detection, gif, review, analysis, splice, racers, overlap>>

SuggestNext == Suggest

SuggestSpec == SuggestInit /\ [][SuggestNext]_vars

someQueryFailed == \E i \in DOMAIN suggestion.logs : suggestion.logs[i].failed

degraded(result) ==
    /\ ~result.threw
    /\ result.suggestedReviewers = <<>>
    /\ result.error # <<>>
    /\ \A i \in DOMAIN result.error : result.error[i] # ""

(***************************************************************************)
(* C14 as claimed: suggestReviewers never throws, and every failure of the *)
(* Analyzer or of a repository query during reviewer resolution yields a   *)
(* return with an empty suggestion list and a non-empty error field.       *)
(***************************************************************************)
C14_EveryFailureDegrades ==
    suggestion.pc = "done" =>
        /\ ~suggestion.result[1].threw
        /\ (suggestion.analyzer = "failed" \/ someQueryFailed)
              => degraded(suggestion.result[1])

(***************************************************************************)
(* C14 as amended: suggestReviewers never throws; a failure of the         *)
(* Analyzer yields a return with an empty suggestion list and a non-empty  *)
(* error field; a failed history query of one file only skips that file,   *)
(* and when no file yields any history the list is empty and the error     *)
(* field non-empty; an empty list always comes with a non-empty error.     *)
(***************************************************************************)
C14_NeverThrows ==
    suggestion.pc = "done" =>
        LET result == suggestion.result[1]
        IN  /\ ~result.threw
            /\ suggestion.analyzer = "failed" => degraded(result)
            /\ (\A i \in DOMAIN suggestion.logs : suggestion.logs[i].failed)
                  => degraded(result)
            /\ result.suggestedReviewers = <<>> => degraded(result)
            /\ (suggestion.analyzer = "ok" /\ someQueryFailed
                /\ \E i \in DOMAIN suggestion.logs :
                       \E j \in DOMAIN suggestion.logs[i].all :
                           suggestion.logs[i].all[j].author_name # <<>>)
                  => result.suggestedReviewers # <<>> /\ result.error = <<>>

\* One file's history query failed and another file's contributors are suggested
C14_Witness ==
    /\ suggestion.pc = "done"
    /\ suggestion.analyzer = "ok"
    /\ someQueryFailed
    /\ suggestion.result[1].suggestedReviewers # <<>>

(***************************************************************************)
(* The base-branch resolver (repository.ts, detectMainBranch).             *)
(***************************************************************************)
Dev == <<"d","e","v">>
Main == <<"m","a","i","n">>
Master == <<"m","a","s","t","e","r">>
OriginPrefix == <<"o","r","i","g","i","n","/">>
RemoteRefPrefix == <<"r","e","f","s","/","r","e","m","o","t","e","s","/","o","r","i","g","i","n","/">>

commonBranches == <<Dev, Main, Master>>

\* s.replace(pattern, ''): the first occurrence of a literal pattern removed
removeFirst(s, pattern) ==
    IF includes(s, pattern)
    THEN LET at == CHOOSE i \in 0..(Len(s) - Len(pattern)) :
                       /\ SubSeq(s, i + 1, i + Len(pattern)) = pattern
                       /\ \A j \in 0..(i - 1) : SubSeq(s, j + 1, j + Len(pattern)) # pattern
         IN  SubSeq(s, 1, at) \o sliceFrom(s, at + Len(pattern))
    ELSE s

\* The first of commonBranches that some listed name includes, <<>> if none
firstCommonIn(names, prefix) ==
    LET hits == {i \in DOMAIN commonBranches :
                    \E b \in names : includes(b, prefix \o commonBranches[i])}
    IN  IF hits = {} THEN <<>>
        ELSE commonBranches[CHOOSE i \in hits : \A j \in hits : i <= j]

\* env: MAIN_BRANCH; originHead: the output of symbolic-ref, <<>> when it fails;
\* branchLocal: "ok" or "failed"
detectMainBranch(env, originHead, branchLocal, localBranches, remoteBranches) ==
    IF env # <<>> THEN env
    ELSE IF originHead # <<>> THEN removeFirst(trim(originHead), RemoteRefPrefix)
    ELSE IF branchLocal = "failed" THEN Dev
    ELSE IF firstCommonIn(localBranches, <<>>) # <<>>
    THEN firstCommonIn(localBranches, <<>>)
    ELSE IF firstCommonIn(remoteBranches, OriginPrefix) # <<>>
    THEN firstCommonIn(remoteBranches, OriginPrefix)
    ELSE Dev

LocalBranchNames ==
    { Dev, Main, Master,
      <<"d","o","m","a","i","n","-","m","o","d","e","l">>,
      <<"f","e","a","t","u","r","e","/","x">> }

RemoteBranchNames ==
    { OriginPrefix \o Dev, OriginPrefix \o Main, OriginPrefix \o Master,
      <<"o","r","i","g","i","n","/","d","e","v","e","l","o","p">> }

DetectInit ==
    /\ detection \in
          {[IdleDetection EXCEPT !.env = v, !.originHead = h, !.branchLocal = q,
                                 !.localBranches = l, !.remoteBranches = r] :
              v \in {<<>>, <<"r","e","l","e","a","s","e">>},
              h \in {<<>>, RemoteRefPrefix \o Main \o <<"\n">>,
                     RemoteRefPrefix \o <<"t","r","u","n","k">> \o <<"\n">>},
              q \in {"ok", "failed"},
              l \in SUBSET LocalBranchNames,
              r \in SUBSET RemoteBranchNames}
    /\ inferred = <<>>
    /\ resolver = [pc |-> "idle", email |-> <<>>, name |-> <<>>, username |-> <<>>]
    /\ suggestion = IdleSuggestion
    /\ gif = IdleGif
    /\ review = IdleReview
    /\ analysis = IdleAnalysis
    /\ TitleIdle
    /\ PrIdle
    /\ splice = IdleSplice
    /\ racers = IdleRacers
    /\ overlap = IdleOverlap

Detect ==
    /\ detection.pc = "idle"
    /\ detection' = [detection EXCEPT
                        !.pc = "done",
                        !.result = detectMainBranch(detection.env, detection.originHead,
                                                    detection.branchLocal,
                                                    detection.localBranches,
                                                    detection.remoteBranches)]
    /\ UNCHANGED <<titleVars, prVars>>
    /\ UNCHANGED <<inferred, resolver, suggestion, gif, review, analysis, splice, racers, overlap>>

DetectNext == Detect

DetectSpec == DetectInit /\ [][DetectNext]_vars

\* The first of dev, main, master that is one of the names, <<>> if none is
firstExisting(names) ==
    IF Dev \in names THEN Dev
    ELSE IF Main \in names THEN Main
    ELSE IF Master \in names THEN Master
    ELSE <<>>

(***************************************************************************)
(* C15: the base-branch resolver returns the first available of: the       *)
(* environment override; the remote's symbolic default branch; the first   *)
(* of dev, main, master that is an existing local branch; the first of     *)
(* dev, main, master that is an existing remote branch; the name dev.      *)
(***************************************************************************)
C15_FirstAvailableBase ==
    (detection.pc = "done" /\ detection.branchLocal = "ok") =>
        detection.result =
            IF detection.env # <<>> THEN detection.env
            ELSE IF detection.originHead # <<>>
            THEN sliceFrom(trim(detection.originHead), Len(RemoteRefPrefix))
            ELSE IF firstExisting(detection.localBranches) # <<>>
            THEN firstExisting(detection.localBranches)
            ELSE IF firstExisting({sliceFrom(b, Len(OriginPrefix)) :
                                      b \in detection.remoteBranches}) # <<>>
            THEN firstExisting({sliceFrom(b, Len(OriginPrefix)) :
                                   b \in detection.remoteBranches})
            ELSE Dev

(***************************************************************************)
(* GIF selection (gif-selector.ts, fetchGifFromGiphy): selections made one *)
(* after another, a clock in minutes, and the Giphy API's answers.         *)
(***************************************************************************)
\* 60 * 60 * 1000 milliseconds, in minutes
RateLimitWindow == 60

\* Mutant: the reset time is compared the wrong way round
rateLimitedNowInverted(isRateLimited, now, rateLimitResetTime) ==
    isRateLimited /\ now > rateLimitResetTime

\* if (isRateLimited && Date.now() < rateLimitResetTime)
rateLimitedNow(isRateLimited, now, rateLimitResetTime) ==
    isRateLimited /\ now < rateLimitResetTime

GiphyAnswers == {"429", "500", "network error", "200 empty", "200"}

GifInit ==
    /\ gif \in {[IdleGif EXCEPT !.disabled = d] : d \in BOOLEAN}
    /\ inferred = <<>>
    /\ resolver = [pc |-> "idle", email |-> <<>>, name |-> <<>>, username |-> <<>>]
    /\ suggestion = IdleSuggestion
    /\ detection = IdleDetection
    /\ review = IdleReview
    /\ analysis = IdleAnalysis
    /\ TitleIdle
    /\ PrIdle
    /\ splice = IdleSplice
    /\ racers = IdleRacers
    /\ overlap = IdleOverlap

GifFrame ==
    /\ UNCHANGED <<titleVars, prVars>>
    /\ UNCHANGED <<inferred, resolver, suggestion, detection, review, analysis, splice, racers, overlap>>

\* selectGif up to the await of fetch: the fallback at once, or a Giphy API call
SelectGif ==
    /\ gif.pc = "idle"
    /\ gif.selections < MaxSelections
    /\ LET begun == [gif EXCEPT !.selections = @ + 1]
       IN  gif' = IF gif.disabled
                     \/ rateLimitedNow(gif.isRateLimited, gif.now, gif.rateLimitResetTime)
                  THEN [begun EXCEPT !.returned = "fallback"]
                  ELSE [begun EXCEPT !.pc = "fetching", !.calls = @ + 1,
                                     !.returned = "none"]
    /\ GifFrame

\* fetchGifFromGiphy after the await: the answer decides the flag and the URL
GiphyResponds ==
    /\ gif.pc = "fetching"
    /\ \E answer \in GiphyAnswers :
         gif' = IF answer = "429"
                THEN [gif EXCEPT !.pc = "idle", !.isRateLimited = TRUE,
                                 !.rateLimitResetTime = gif.now + RateLimitWindow,
                                 !.limitedAt = gif.now, !.returned = "fallback"]
                ELSE IF answer \in {"500", "network error"}
                THEN [gif EXCEPT !.pc = "idle", !.returned = "fallback"]
                ELSE [gif EXCEPT !.pc = "idle", !.isRateLimited = FALSE,
                                 !.rateLimitResetTime = 0,
                                 !.returned = IF answer = "200" THEN "gif" ELSE "fallback"]
    /\ GifFrame

\* Date.now() moves on, also while a request is in flight
Tick ==
    /\ gif.now < MaxClock
    /\ gif' = [gif EXCEPT !.now = @ + 1]
    /\ GifFrame

GifNext == SelectGif \/ GiphyResponds \/ Tick

GifSpec == GifInit /\ [][GifNext]_vars

\* A selection begins less than RateLimitWindow minutes after the last 429
selectionInWindow ==
    /\ gif.pc = "idle"
    /\ gif'.selections = gif.selections + 1
    /\ gif.limitedAt >= 0
    /\ gif.now < gif.limitedAt + RateLimitWindow

(***************************************************************************)
(* C16: when GIF selections are made one after another, every selection    *)
(* begun within 60 minutes of a Giphy response with status 429 returns the *)
(* fallback URL without issuing any Giphy API call.                        *)
(***************************************************************************)
C16_FallbackDuringCooldown ==
    [][ selectionInWindow =>
          /\ gif'.pc = "idle"
          /\ gif'.returned = "fallback"
          /\ gif'.calls = gif.calls ]_vars

\* A selection answered from the fallback 59 minutes after the 429, GIFs enabled
C16_Witness ==
    /\ ~gif.disabled
    /\ gif.pc = "idle"
    /\ gif.limitedAt >= 0
    /\ gif.now = gif.limitedAt + RateLimitWindow - 1
    /\ gif.selections = 2 /\ gif.calls = 1
    /\ gif.returned = "fallback"

(***************************************************************************)
(* The rule-based review (executeReview).  The diff is the set of the      *)
(* fragments it holds; the output is the sequence of its lines.            *)
(***************************************************************************)
ReviewLines == 15
ShownIssues == 4
ShownSuggestions == 3
LargeGrowth == 300

endsWith(s, suffix) ==
    Len(s) >= Len(suffix) /\ SubSeq(s, Len(s) - Len(suffix) + 1, Len(s)) = suffix

DiffFragments ==
    {"console.log(", "// TODO later", "fixme", "api_key = 1", "BREAKING CHANGE", "const x = 1"}

SampleChangedFiles ==
    { <<"s","r","c","/","a",".","t","s">>,
      <<"s","r","c","/","a",".","t","e","s","t",".","t","s">>,
      <<"d","o","c","s","/","g","u","i","d","e",".","m","d">>,
      <<"R","E","A","D","M","E",".","m","d">>,
      <<"m","a","i","n",".","p","y">> }

\* analyzeBranch: hasTests and hasBreakingChanges of the detailed analysis
hasTestsOf(files) ==
    \E f \in files : includes(f, Test) \/ includes(f, <<"s","p","e","c">>)

hasBreakingChangesOf(fullDiff) == "BREAKING CHANGE" \in fullDiff

\* The five heuristics, in the order their messages are pushed
criticalIssuesOf(files, fullDiff) ==
    (IF hasBreakingChangesOf(fullDiff)
     THEN <<"Potential breaking change detected ('BREAKING CHANGE')">> ELSE <<>>) \o
    (IF ~hasTestsOf(files)
     THEN <<"Missing or insufficient tests for modified areas">> ELSE <<>>) \o
    (IF "console.log(" \in fullDiff
     THEN <<"Debug statements found ('console.log')">> ELSE <<>>) \o
    (IF fullDiff \cap {"// TODO later", "fixme"} # {}
     THEN <<"Leftover TODO/FIXME comments in changes">> ELSE <<>>) \o
    (IF "api_key = 1" \in fullDiff
     THEN <<"Possible secrets or API keys in diff">> ELSE <<>>)

suggestionsOf(files, growth) ==
    (IF growth > LargeGrowth /\ ~hasTestsOf(files)
     THEN <<"Add unit/integration tests for new logic">> ELSE <<>>) \o
    (IF \E f \in files : endsWith(f, <<".","t","s">>) \/ endsWith(f, <<".","t","s","x">>)
     THEN <<"Ensure strict typing and avoid 'any' in new code">> ELSE <<>>) \o
    (IF ~\E f \in files : includes(f, Docs) \/ includes(f, <<"R","E","A","D","M","E">>)
     THEN <<"Update documentation if behavior or APIs changed">> ELSE <<>>)

RequestChangesLine == "REQUEST_CHANGES - Address critical issues above"
ApproveLine == "APPROVE - Ship it"

\* text.split("\n").slice(0, maxLines).join("\n"), the text being its lines
truncateLines(lines, maxLines) == sliceTo(lines, maxLines)

decisionLine(criticalIssues) ==
    IF Len(criticalIssues) > 0 THEN RequestChangesLine ELSE ApproveLine

\* One line of the markdown: a bullet mark or nothing, then the text
Plain(text) == <<"", text>>
Bullet(text) == <<"- ", text>>

executeReview(files, fullDiff, growth) ==
    LET criticalIssues == criticalIssuesOf(files, fullDiff)
        suggestions == suggestionsOf(files, growth)
        shownIssues == sliceTo(criticalIssues, ShownIssues)
        shownSuggestions == sliceTo(suggestions, ShownSuggestions)
        lines ==
            << Plain("## Summary"),
               Plain(IF Len(criticalIssues) > 0
                     THEN "Several blocking issues found; please address before merging."
                     ELSE "No blocking issues detected; changes look good overall."),
               Plain(""),
               Plain("## Critical Issues") >> \o
            (IF Len(criticalIssues) = 0 THEN <<Bullet("None")>>
             ELSE [i \in DOMAIN shownIssues |-> Bullet(shownIssues[i])]) \o
            << Plain(""), Plain("## Key Suggestions") >> \o
            (IF Len(suggestions) = 0 THEN <<Bullet("No additional suggestions")>>
             ELSE [i \in DOMAIN shownSuggestions |-> Bullet(shownSuggestions[i])]) \o
            << Plain(""), Plain("## Decision"), Plain(decisionLine(criticalIssues)) >>
    IN  truncateLines(lines, ReviewLines)

ReviewInit ==
    /\ review \in {[IdleReview EXCEPT !.files = f, !.fullDiff = d, !.growth = g] :
                      f \in SUBSET SampleChangedFiles,
                      d \in SUBSET DiffFragments,
                      g \in {0, LargeGrowth, LargeGrowth + 1}}
    /\ inferred = <<>>
    /\ resolver = [pc |-> "idle", email |-> <<>>, name |-> <<>>, username |-> <<>>]
    /\ suggestion = IdleSuggestion
    /\ detection = IdleDetection
    /\ gif = IdleGif
    /\ analysis = IdleAnalysis
    /\ TitleIdle
    /\ PrIdle
    /\ splice = IdleSplice
    /\ racers = IdleRacers
    /\ overlap = IdleOverlap

Review ==
    /\ review.pc = "idle"
    /\ review' = [review EXCEPT
                     !.pc = "done",
                     !.criticalIssues = criticalIssuesOf(review.files, review.fullDiff),
                     !.output = executeReview(review.files, review.fullDiff,
                                              review.growth)]
    /\ UNCHANGED <<titleVars, prVars>>
    /\ UNCHANGED <<inferred, resolver, suggestion, detection, gif, analysis, splice, racers, overlap>>

ReviewNext == Review

ReviewSpec == ReviewInit /\ [][ReviewNext]_vars

(***************************************************************************)
(* C17: the review output always contains a decision, and the decision is  *)
(* REQUEST_CHANGES if and only if at least one critical issue was detected *)
(* (breaking change, no tests, console.log, TODO/FIXME, suspected secret); *)
(* otherwise it is APPROVE.                                                *)
(***************************************************************************)
C17_DecisionFollowsIssues ==
    review.pc = "done" =>
        LET decisions == {review.output[i] : i \in DOMAIN review.output}
                             \cap {Plain(RequestChangesLine), Plain(ApproveLine)}
        IN  /\ decisions # {}
            /\ (Plain(RequestChangesLine) \in decisions)
                   <=> (Len(review.criticalIssues) > 0)
            /\ (Plain(ApproveLine) \in decisions)
                   <=> (Len(review.criticalIssues) = 0)

(***************************************************************************)
(* The Branch Change Analyzer (analyzer.ts, analyzeBranch): the commits of *)
(* git log base..current are the input.                                    *)
(***************************************************************************)
\* Mutant: the message is not lower-cased before the prefix tests
commitTypeOfCaseSensitive(message) ==
    IF startsWith(message, Fix) THEN "fix"
    ELSE IF startsWith(message, Feat) THEN "feature"
    ELSE IF startsWith(message, Refactor) THEN "refactor"
    ELSE IF startsWith(message, Docs) THEN "documentation"
    ELSE IF startsWith(message, Test) THEN "test"
    ELSE "other"

\* The tag of one commit message
commitTypeOf(message) ==
    LET lower == toLowerCase(message)
    IN  IF startsWith(lower, Fix) THEN "fix"
        ELSE IF startsWith(lower, Feat) THEN "feature"
        ELSE IF startsWith(lower, Refactor) THEN "refactor"
        ELSE IF startsWith(lower, Docs) THEN "documentation"
        ELSE IF startsWith(lower, Test) THEN "test"
        ELSE "other"

\* [...new Set(list)]: the distinct elements in the order of their first occurrence
RECURSIVE distinct(_)
distinct(list) ==
    IF list = <<>> THEN <<>>
    ELSE LET front == distinct(SubSeq(list, 1, Len(list) - 1))
             last == list[Len(list)]
         IN  IF last \in Range(front) THEN front ELSE Append(front, last)

\* The fields of AnalysisResult that come from the log
analyzeBranch(log) ==
    [ totalCommits |-> Len(log),
      commits |-> log,
      commitTypes |-> distinct([i \in DOMAIN log |-> commitTypeOf(log[i])]) ]

AnalysedMessages ==
    { <<>>,
      <<"f","i","x",":"," ","a">>,
      <<"F","e","a","t","u","r","e"," ","x">>,
      <<"f","e","a","t","(","u","i",")",":"," ","b">>,
      <<"r","e","f","a","c","t","o","r","i","n","g">>,
      <<"D","O","C","S">>,
      <<"t","e","s","t"," ","i","t">>,
      <<"u","p","d","a","t","e">>,
      <<"a"," ","f","i","x">> }

AnalyzeInit ==
    /\ analysis \in {[IdleAnalysis EXCEPT !.git = g, !.log = l] :
                        g \in {"ok", "failed"},
                        l \in ListsUpTo(AnalysedMessages, MaxCommits)}
    /\ inferred = <<>>
    /\ resolver = [pc |-> "idle", email |-> <<>>, name |-> <<>>, username |-> <<>>]
    /\ suggestion = IdleSuggestion
    /\ detection = IdleDetection
    /\ gif = IdleGif
    /\ review = IdleReview
    /\ TitleIdle
    /\ PrIdle
    /\ splice = IdleSplice
    /\ racers = IdleRacers
    /\ overlap = IdleOverlap

\* analyzeBranch: the result, or the wrapped error of a failed git query
Analyze ==
    /\ analysis.pc = "idle"
    /\ analysis' = IF analysis.git = "ok"
                   THEN [analysis EXCEPT !.pc = "done",
                                         !.result = <<analyzeBranch(analysis.log)>>]
                   ELSE [analysis EXCEPT !.pc = "threw",
                                         !.error = <<"Error analyzing branch: ", "fatal">>]
    /\ UNCHANGED <<titleVars, prVars>>
    /\ UNCHANGED <<inferred, resolver, suggestion, detection, gif, review, splice, racers, overlap>>

AnalyzeNext == Analyze

AnalyzeSpec == AnalyzeInit /\ [][AnalyzeNext]_vars

\* The tag a message gets, by the first prefix of prefixes it starts with
tagByPrefix(message, prefixes, tags) ==
    LET hits == {i \in DOMAIN prefixes : startsWith(toLowerCase(message), prefixes[i])}
    IN  IF hits = {} THEN "other"
        ELSE tags[CHOOSE i \in hits : \A j \in hits : i <= j]

TagPrefixes == <<Fix, Feat, Refactor, Docs, Test>>

tagsAre(tags) ==
    analysis.pc = "done" =>
        LET result == analysis.result[1]
        IN  /\ result.totalCommits = Len(analysis.log)
            /\ result.commits = analysis.log
            /\ Range(result.commitTypes) =
                   {tagByPrefix(analysis.log[i], TagPrefixes, tags) : i \in DOMAIN analysis.log}
            /\ Range(result.commitTypes) \subseteq Range(tags) \cup {"other"}
            /\ Injective(result.commitTypes)
            /\ analysis.log = <<>> =>
                  /\ result.totalCommits = 0
                  /\ result.commits = <<>>
                  /\ result.commitTypes = <<>>

(***************************************************************************)
(* C18 as claimed: commitTypeTags is exactly the set of the tags of the    *)
(* analysed commits, each commit contributing one tag from {fix, feat,     *)
(* refactor, docs, test, other}; zero commits yield totalCommits = 0,      *)
(* commits = [] and an empty commitTypeTags.                               *)
(***************************************************************************)
C18_TagsNamedByPrefix ==
    tagsAre(<<"fix", "feat", "refactor", "docs", "test">>)

(***************************************************************************)
(* C18 as amended: commitTypeTags is exactly the set of the tags of the    *)
(* analysed commits, each commit contributing one tag from {fix, feature,  *)
(* refactor, documentation, test, other}, chosen by the first of the       *)
(* prefixes fix, feat, refactor, docs, test its message starts with        *)
(* (case-insensitive); zero commits yield totalCommits = 0, commits = []   *)
(* and an empty commitTypeTags.                                            *)
(***************************************************************************)
C18_TagsOfCommits ==
    tagsAre(<<"fix", "feature", "refactor", "documentation", "test">>)

\* Two commits with the same tag, one of them in upper case: one tag
C18_Witness ==
    /\ analysis.pc = "done"
    /\ Len(analysis.log) = 2
    /\ analysis.log[1] # analysis.log[2]
    /\ analysis.result[1].commitTypes = <<"feature">>


(***************************************************************************)
(* The Analyzer within one invocation of the orchestrator (Spec).  The     *)
(* calls log holds, in order, every collaborator the invocation has run.   *)
(***************************************************************************)
\* How many times the invocation has run the Branch Change Analyzer so far
analyzerRuns == Cardinality({k \in DOMAIN calls : calls[k] = "analyzeBranch"})

\* C19: an invocation that returns its result has run the Branch Change Analyzer
\* exactly once, whichever of title inference, description synthesis and
\* reviewer assignment it performed.
C19_AnalyzerRunsOnce ==
    inv.pc = "returned" => analyzerRuns = 1

\* The collaborators of title resolution and description resolution
ResolutionCalls ==
    {"analyzeBranch", "executeGenerateTitleSimple", "executeGeneratePR", "prTemplates"}

\* C20: the remote branch-existence check comes before title and description
\* resolution: every call of the Analyzer, of Title/Scope Inference and of the
\* templating collaborator follows repos.getBranch, and an invocation whose
\* branch is absent from the remote (404) has called none of them.
C20_BranchCheckedFirst ==
    /\ \A k \in DOMAIN calls :
         calls[k] \in ResolutionCalls =>
             \E j \in 1..(k - 1) : calls[j] = "repos.getBranch"
    /\ inv.remoteBranch = "404" => Range(calls) \cap ResolutionCalls = {}


(***************************************************************************)
(* Reviewer assignment within one invocation of the orchestrator (Spec).   *)
(***************************************************************************)
\* Every login the resolver suggested is the authenticated caller's own
onlyCallerSuggested ==
    /\ inv.suggested # <<>>
    /\ \A l \in Range(inv.suggested) : toLowerCase(l) = toLowerCase(CurrentUser)

(***************************************************************************)
(* C21: when excluding the authenticated caller leaves no reviewer         *)
(* candidate, the invocation issues no request-reviewers call, records a   *)
(* reviewerNote, and returns the result of its create/update/reopen step.  *)
(***************************************************************************)
C21_EmptyCandidatesNoRequest ==
    (onlyCallerSuggested /\ inv.pc # "authenticate") =>
        /\ inv.pc = "returned"
        /\ "pulls.requestReviewers" \notin Range(calls)
        /\ inv.result[1].reviewerNote # None
        /\ inv.result[1].reviewers = None
        /\ inv.result[1].number = inv.pr[1].number
        /\ inv.result[1].state = inv.pr[1].state
        /\ inv.result[1].action = inv.action

\* The resolver named the caller alone, in another case, and the tool returned
C21_Witness ==
    /\ inv.pc = "returned"
    /\ inv.suggested = <<AliceCapital>>
    /\ inv.reviewerError # None
    /\ inv.reviewerError[1].kind = "all filtered out"
    /\ inv.action = "created"


(***************************************************************************)
(* The review splice of executeCreatePRComplete (STEP 3 and the lines      *)
(* after STEP 4): the description is the caller's or the template's text,  *)
(* the review text is the caller's aiReviewText.  Texts are sequences of   *)
(* characters; the heading of the review section is one element.           *)
(***************************************************************************)
NewLine == "\n"
BlankLine == <<NewLine, NewLine>>
Rule == <<"-", "-", "-">>
ReviewHeading == <<"## AI Code Review">>

\* s.indexOf(p), counted from 1; 0 when p does not occur
indexOf(s, p) ==
    LET at == {i \in 1..(Len(s) - Len(p) + 1) : SubSeq(s, i, i + Len(p) - 1) = p}
    IN  IF at = {} THEN 0 ELSE CHOOSE i \in at : \A j \in at : i <= j

\* . of a regular expression without the s flag
noNewLine(s, a, b) == \A i \in a..b : s[i] # NewLine

\* The ends (j, k) of the matches of !\[.*?\]\(.*?\) that start at i: s[j] is the
\* closing bracket and s[k] the closing parenthesis
imageEndsAt(s, i) ==
    IF i + 1 > Len(s) \/ s[i] # "!" \/ s[i + 1] # "["
    THEN {}
    ELSE { jk \in ((i + 2)..Len(s)) \X ((i + 4)..Len(s)) :
             /\ jk[2] >= jk[1] + 2
             /\ s[jk[1]] = "]" /\ s[jk[1] + 1] = "("
             /\ s[jk[2]] = ")"
             /\ noNewLine(s, i + 2, jk[1] - 1)
             /\ noNewLine(s, jk[1] + 2, jk[2] - 1) }

\* finalDescription.match(/!\[.*?\]\(.*?\)/): the text of the leftmost match, each
\* .*? as short as a match allows; <<>> for null
gifMatch(s) ==
    LET starts == {i \in DOMAIN s : imageEndsAt(s, i) # {}}
    IN  IF starts = {} THEN <<>>
        ELSE LET i == CHOOSE a \in starts : \A b \in starts : a <= b
                 ends == imageEndsAt(s, i)
                 j == CHOOSE a \in {e[1] : e \in ends} : \A e \in ends : a <= e[1]
                 k == CHOOSE a \in {e[2] : e \in {f \in ends : f[1] = j}} :
                          \A e \in {f \in ends : f[1] = j} : a <= e[2]
             IN  SubSeq(s, i, k)

\* Lines 225-238: the review section, empty without a review text
reviewSectionOf(aiReviewText) ==
    IF aiReviewText = <<>> THEN <<>>
    ELSE BlankLine \o Rule \o BlankLine \o ReviewHeading \o BlankLine
         \o aiReviewText \o BlankLine \o Rule

\* Mutant: the section is appended whatever the description holds
finalDescriptionAppended(supplied, text, aiReviewText) ==
    text \o reviewSectionOf(aiReviewText)

\* Lines 298-316: supplied says that the caller gave the description
finalDescriptionOf(supplied, text, aiReviewText) ==
    LET reviewSection == reviewSectionOf(aiReviewText)
    IN  IF reviewSection # <<>> /\ ~supplied
        THEN LET match == gifMatch(text)
             IN  IF match # <<>>
                 THEN LET gifIndex == indexOf(text, match) - 1
                      IN  sliceTo(text, gifIndex) \o reviewSection \o BlankLine
                          \o sliceFrom(text, gifIndex)
                 ELSE text \o reviewSection
        ELSE IF reviewSection # <<>> /\ supplied
        THEN text \o BlankLine \o reviewSection
        ELSE text

Image == <<"!", "[", "a", "]", "(", "b", ")">>

\* The pieces descriptions are put together from
Fragments ==
    { Image, <<"!", "[", "a", "]">>, <<"(", "b", ")">>, <<NewLine>>, <<"x">> }

RECURSIVE concat(_)
concat(l) == IF l = <<>> THEN <<>> ELSE Head(l) \o concat(Tail(l))

Descriptions == {concat(l) : l \in ListsUpTo(Fragments, MaxFragments)}

ReviewTexts == { <<>>, <<"L", "G", "T", "M">>, <<"s", "e", "e", " ">> \o Image }

\* A supplied description is a non-empty string (description is tested for truth)
SpliceInit ==
    /\ splice \in { [ pc |-> "ready", supplied |-> sup, description |-> d,
                      aiReviewText |-> r, finalDescription |-> <<>> ] :
                    sup \in BOOLEAN, d \in Descriptions, r \in ReviewTexts }
    /\ splice.supplied => splice.description # <<>>
    /\ TitleIdle
    /\ PrIdle
    /\ inferred = <<>>
    /\ resolver = [pc |-> "idle", email |-> <<>>, name |-> <<>>, username |-> <<>>]
    /\ suggestion = IdleSuggestion
    /\ detection = IdleDetection
    /\ gif = IdleGif
    /\ review = IdleReview
    /\ analysis = IdleAnalysis
    /\ racers = IdleRacers
    /\ overlap = IdleOverlap

Splice ==
    /\ splice.pc = "ready"
    /\ splice' = [splice EXCEPT !.pc = "done",
                    !.finalDescription =
                        finalDescriptionOf(splice.supplied, splice.description,
                                           splice.aiReviewText)]
    /\ UNCHANGED <<titleVars, prVars>>
    /\ UNCHANGED <<inferred, resolver, suggestion, detection, gif, review, analysis, racers, overlap>>

SpliceNext == Splice

SpliceSpec == SpliceInit /\ [][SpliceNext]_vars

\* An illustrative-media marker ![..](..) on one line starts at position i of s
markerAt(s, i) ==
    /\ i + 4 <= Len(s)
    /\ s[i] = "!" /\ s[i + 1] = "["
    /\ \E j \in (i + 2)..(Len(s) - 2) : \E k \in (j + 2)..Len(s) :
         /\ s[j] = "]" /\ s[j + 1] = "(" /\ s[k] = ")"
         /\ \A n \in ((i + 2)..(j - 1)) \cup ((j + 2)..(k - 1)) : s[n] # NewLine

markers(s) == {i \in DOMAIN s : markerAt(s, i)}

firstParts == splitSlash(filesList[1])

\* The first changed path lies under a monorepo root and has n segments or more
underMonorepoRoot(n) ==
    /\ inferred # <<>>
    /\ filesList # <<>>
    /\ firstParts[1] \in MONOREPO_ROOTS
    /\ Len(firstParts) >= n
    /\ firstParts[2] # <<>>

FeatApiAddOAuth ==
    <<"f","e","a","t","(","a","p","i",")",":"," ","a","d","d"," ","O","A","u","t","h">>

\* The end-to-end scenario: the scope comes from the path, not from the commit
scenarioHolds ==
    (inferred # <<>> /\ commits = <<FeatAuthAddOAuth>> /\ filesList = <<RoutesFile>>)
        => inferred[1].title = FeatApiAddOAuth

(***************************************************************************)
(* C23 as claimed: a path under a monorepo root that has a second segment  *)
(* yields that second segment, sanitized and lower-cased, as scope, never  *)
(* the root; feat(auth): add OAuth over packages/api/src/routes.ts yields  *)
(* feat(api): add OAuth.                                                   *)
(***************************************************************************)
C23_SecondSegmentIsScope ==
    /\ underMonorepoRoot(2) =>
           /\ inferred[1].scope = toLowerCase(sanitize(firstParts[2]))
           /\ inferred[1].scope # firstParts[1]
    /\ scenarioHolds

(***************************************************************************)
(* C23 as amended: a path under a monorepo root that has at least three    *)
(* segments yields its second segment, sanitized and lower-cased, as       *)
(* scope; a path of two segments (libs/x.ts) yields the root itself; the   *)
(* end-to-end scenario yields feat(api): add OAuth.                        *)
(***************************************************************************)
C23_SecondLevelDirectoryIsScope ==
    /\ underMonorepoRoot(3) =>
           inferred[1].scope = toLowerCase(sanitize(firstParts[2]))
    /\ (underMonorepoRoot(2) /\ Len(firstParts) = 2) =>
           inferred[1].scope = firstParts[1]
    /\ scenarioHolds

\* The end-to-end scenario has run
C23_Witness ==
    /\ inferred # <<>>
    /\ commits = <<FeatAuthAddOAuth>>
    /\ filesList = <<RoutesFile>>
    /\ inferred[1].scope = Api
    /\ inferred[1].title = FeatApiAddOAuth


\* The first commit message without its conventional prefix, trimmed
strippedFirst ==
    LET first == IF commits = <<>> THEN <<>> ELSE commits[1]
    IN  trim(sliceFrom(first, conventionalPrefixLen(first)))

(***************************************************************************)
(* C24: the subject is the first commit message without a leading          *)
(* type(optional-scope): prefix, trimmed, its first character lower-cased  *)
(* and every other character unchanged; an empty result is `update`.       *)
(***************************************************************************)
C24_SubjectFirstCharLowerCased ==
    inferred # <<>> =>
        inferred[1].subject =
            IF strippedFirst = <<>> THEN Update
            ELSE <<toLowerCaseChar(strippedFirst[1])>> \o Tail(strippedFirst)


(***************************************************************************)
(* Counting and ranking of contributors (SuggestSpec).                     *)
(***************************************************************************)
\* The commits of the histories that were read: the first ten files, a failed
\* query giving none
RECURSIVE commitsOf(_)
commitsOf(logs) ==
    IF logs = <<>> THEN <<>>
    ELSE (IF Head(logs).failed THEN <<>> ELSE Head(logs).all) \o commitsOf(Tail(logs))

readCommits == commitsOf(SubSeq(suggestion.logs, 1, Min(Len(suggestion.logs), 10)))

named(c) == c.author_name # <<>> /\ c.author_email # <<>>

\* The (name, email) pairs of the commits read, and the commits of one pair
pairsRead ==
    { <<readCommits[i].author_name, readCommits[i].author_email>> :
          i \in {j \in DOMAIN readCommits : named(readCommits[j])} }

commitsBy(pair) ==
    Cardinality({i \in DOMAIN readCommits :
                    /\ readCommits[i].author_name = pair[1]
                    /\ readCommits[i].author_email = pair[2]})

suggested == suggestion.result[1].suggestedReviewers

(***************************************************************************)
(* C25: two commits count toward the same contributor exactly when their   *)
(* author names are equal and their author emails are equal, and a commit  *)
(* without name or without email counts toward nobody: when the limit      *)
(* leaves nobody out, there is one suggestion per (name, email) pair read, *)
(* and as many suggestions with n contributions as pairs with n commits.   *)
(***************************************************************************)
C25_CountedPerNameAndEmail ==
    ( /\ suggestion.pc = "done"
      /\ suggestion.analyzer = "ok"
      /\ Cardinality(pairsRead) <= suggestion.limit )
    => /\ Len(suggested) = Cardinality(pairsRead)
       /\ \A n \in 1..Len(readCommits) :
              Cardinality({i \in DOMAIN suggested : suggested[i].contributions = n})
                  = Cardinality({p \in pairsRead : commitsBy(p) = n})


\* The contributors as accumulated from the histories read, in first-seen order
accumulated ==
    countFiles([fileAuthors |-> <<>>, totalCommitsAnalyzed |-> 0],
               SubSeq(suggestion.logs, 1, Min(Len(suggestion.logs), 10))).fileAuthors

\* f places each suggestion at the accumulated contributor it was made from
placedBy(f) ==
    /\ \A i, j \in DOMAIN suggested : i # j => f[i] # f[j]
    /\ \A i \in DOMAIN suggested : suggested[i] = suggestedReviewer(accumulated[f[i]])
    /\ \A i, j \in DOMAIN suggested :
          (i < j /\ suggested[i].contributions = suggested[j].contributions)
              => f[i] < f[j]
    /\ \A m \in DOMAIN accumulated :
          (\A i \in DOMAIN suggested : f[i] # m)
              => \A i \in DOMAIN suggested :
                     accumulated[m].count <= suggested[i].contributions

(***************************************************************************)
(* C26: suggestReviewers reads the history of the first ten changed files  *)
(* only, in the Analyzer's order, and returns at most limit suggestions,   *)
(* contribution counts never increasing along the list, equal counts in    *)
(* first-seen order, and nobody left out who has a strictly higher count   *)
(* than somebody in the list.                                              *)
(***************************************************************************)
C26_TopContributorsOfFirstTenFiles ==
    (suggestion.pc = "done" /\ suggestion.analyzer = "ok") =>
        /\ Len(suggested) <= suggestion.limit
        /\ \A i, j \in DOMAIN suggested :
              i < j => suggested[i].contributions >= suggested[j].contributions
        /\ \E f \in [DOMAIN suggested -> DOMAIN accumulated] : placedBy(f)

\* Eleven changed files, the eleventh with Bob's commits, which are not counted
C26_Witness ==
    /\ suggestion.pc = "done"
    /\ suggestion.analyzer = "ok"
    /\ suggestion.limit = 3
    /\ Len(suggestion.logs) = 11
    /\ suggestion.logs[11] = Log(<<AliceCommit, BobCommit, BobCommit>>)
    /\ suggestion.logs[1] = Log(<<AliceCommit>>)
    /\ Len(suggested) = 1
    /\ suggested[1].contributions = 10


(***************************************************************************)
(* The mutating requests of one invocation of the orchestrator (Spec).     *)
(***************************************************************************)
\* How many times the invocation has called the remote operation named
issued(name) == Cardinality({k \in DOMAIN calls : calls[k] = name})

(***************************************************************************)
(* C27: an invocation that returns has issued exactly one pull-request     *)
(* mutation, one create or one update and not both; no update sets a pull  *)
(* request's state to closed; an invocation that throws before its         *)
(* transition step has issued no mutation.                                 *)
(***************************************************************************)
C27_ExactlyOneMutation ==
    /\ inv.pc = "returned" =>
          /\ issued("pulls.create") + issued("pulls.update") = 1
          /\ inv.mutation.op = "create" <=> issued("pulls.create") = 1
          /\ inv.mutation.op = "update" <=> issued("pulls.update") = 1
    /\ inv.mutation.state # "closed"
    /\ (inv.pc = "threw" /\ inv.mutation = NoMutation) =>
          issued("pulls.create") + issued("pulls.update") = 0

\* A closed pull request was reopened by the one update of the invocation
C27_Witness ==
    /\ inv.pc = "returned"
    /\ inv.action = "reopened"
    /\ issued("pulls.update") = 1
    /\ issued("pulls.create") = 0


(***************************************************************************)
(* C30: in every returned result the reviewer fields agree: reviewersAdded *)
(* is the length of reviewers (0 when reviewers is absent); reviewerNote   *)
(* is absent exactly when a reviewer was added and no problem was          *)
(* recorded; every login of reviewers was among the logins sent in the     *)
(* request-reviewers call.                                                 *)
(***************************************************************************)
C30_ReviewerFieldsConsistent ==
    inv.pc = "returned" =>
        LET r == inv.result[1]
        IN  /\ r.reviewersAdded = (IF r.reviewers = None THEN 0 ELSE Len(r.reviewers[1]))
            /\ (r.reviewerNote = None) <=> (r.reviewersAdded > 0 /\ inv.reviewerError = None)
            /\ r.reviewers # None => Range(r.reviewers[1]) \subseteq Range(inv.requested)


(***************************************************************************)
(* createOrUpdatePR invocations that overlap in time: each invocation      *)
(* awaits pulls.list and then its mutating request, and the awaits of      *)
(* different invocations interleave.  The remote accepts every request.    *)
(***************************************************************************)
ListingRacer == [pc |-> "list", existing |-> <<>>, action |-> "none", number |-> 0]

RaceInit ==
    /\ racers = [i \in 1..MaxRacers |-> ListingRacer]
    /\ prs \in {remote \in InitialRemotes :
                   Cardinality({i \in DOMAIN remote : /\ remote[i].head = CurrentBranch
                                                      /\ remote[i].base = BaseBranch}) <= 1}
    /\ inv = IdleInv
    /\ calls = <<>>
    /\ history = <<>>
    /\ TitleIdle
    /\ inferred = <<>>
    /\ resolver = [pc |-> "idle", email |-> <<>>, name |-> <<>>, username |-> <<>>]
    /\ suggestion = IdleSuggestion
    /\ detection = IdleDetection
    /\ gif = IdleGif
    /\ review = IdleReview
    /\ analysis = IdleAnalysis
    /\ splice = IdleSplice
    /\ overlap = IdleOverlap

RaceFrame ==
    /\ UNCHANGED <<titleVars, inv, calls, history>>
    /\ UNCHANGED <<inferred, resolver, suggestion, detection, gif, review, analysis,
                   splice, overlap>>

\* await octokit.rest.pulls.list of invocation i
RaceList(i) ==
    /\ racers[i].pc = "list"
    /\ racers' = [racers EXCEPT ![i] = [@ EXCEPT !.pc = "transition",
                                                 !.existing = existingPRsOf(prs)]]
    /\ UNCHANGED prs
    /\ RaceFrame

\* await octokit.rest.pulls.create / pulls.update of invocation i
RaceTransition(i) ==
    /\ racers[i].pc = "transition"
    /\ LET m == mutationFor(racers[i].existing, SuppliedTitle, "generated")
       IN  /\ prs' = remoteAfter(prs, m)
           /\ racers' = [racers EXCEPT ![i] = [@ EXCEPT !.pc = "returned",
                                                        !.action = m.action,
                                                        !.number = responseOf(prs, m).number]]
    /\ RaceFrame

RaceNext == \E i \in 1..MaxRacers : RaceList(i) \/ RaceTransition(i)

RaceSpec == RaceInit /\ [][RaceNext]_vars

(***************************************************************************)
(* C28: of any number of invocations against the same branch and base,     *)
(* overlapping in time or not, against a remote that accepts every create  *)
(* call, at most one returns action created, and at most one pull request  *)
(* exists for (currentBranch, baseBranch) afterwards.                      *)
(***************************************************************************)
C28_AtMostOneCreated ==
    /\ Cardinality({i \in DOMAIN racers : racers[i].action = "created"}) <= 1
    /\ Cardinality(matching(prs)) <= 1


(***************************************************************************)
(* GIF requests that overlap in time (gif-selector.ts): every request      *)
(* reads the module's flag before its fetch and writes it after the await, *)
(* and the awaits of different requests interleave.                        *)
(***************************************************************************)
OverlapInit ==
    /\ overlap = IdleOverlap
    /\ prs = <<>>
    /\ inv = IdleInv
    /\ calls = <<>>
    /\ history = <<>>
    /\ TitleIdle
    /\ inferred = <<>>
    /\ resolver = [pc |-> "idle", email |-> <<>>, name |-> <<>>, username |-> <<>>]
    /\ suggestion = IdleSuggestion
    /\ detection = IdleDetection
    /\ gif = IdleGif
    /\ review = IdleReview
    /\ analysis = IdleAnalysis
    /\ splice = IdleSplice
    /\ racers = IdleRacers

OverlapFrame ==
    /\ UNCHANGED <<titleVars, prVars>>
    /\ UNCHANGED <<inferred, resolver, suggestion, detection, gif, review, analysis,
                   splice, racers>>

\* A request up to its await of fetch: the fallback at once, or a Giphy API call
StartRequest ==
    /\ overlap.inFlight < MaxInFlight
    /\ overlap.calls < MaxSelections
    /\ overlap' = IF rateLimitedNow(overlap.isRateLimited, overlap.now,
                                    overlap.rateLimitResetTime)
                  THEN overlap
                  ELSE [overlap EXCEPT !.inFlight = @ + 1, !.calls = @ + 1]
    /\ OverlapFrame

\* One of the requests in flight after its await: the answer decides the flag
RequestAnswered ==
    /\ overlap.inFlight > 0
    /\ \E answer \in GiphyAnswers :
         overlap' = IF answer = "429"
                    THEN [overlap EXCEPT !.inFlight = @ - 1, !.isRateLimited = TRUE,
                                         !.rateLimitResetTime = overlap.now + RateLimitWindow,
                                         !.limitedAt = overlap.now]
                    ELSE IF answer \in {"500", "network error"}
                    THEN [overlap EXCEPT !.inFlight = @ - 1]
                    ELSE [overlap EXCEPT !.inFlight = @ - 1, !.isRateLimited = FALSE,
                                         !.rateLimitResetTime = 0]
    /\ OverlapFrame

\* Date.now() moves on
OverlapTick ==
    /\ overlap.now < MaxClock
    /\ overlap' = [overlap EXCEPT !.now = @ + 1]
    /\ OverlapFrame

OverlapNext == StartRequest \/ RequestAnswered \/ OverlapTick

OverlapSpec == OverlapInit /\ [][OverlapNext]_vars

(***************************************************************************)
(* C29: with GIF requests that overlap in time, no Giphy API call is       *)
(* started less than 60 minutes after a request has received a 429, also   *)
(* when a request that was in flight at the 429 succeeds after it.         *)
(***************************************************************************)
C29_NoCallDuringCooldown ==
    [][ ( /\ overlap.limitedAt >= 0
          /\ overlap.now < overlap.limitedAt + RateLimitWindow )
        => overlap'.calls = overlap.calls ]_vars

====
